---- MODULE Spec2Model ----
(***************************************************************************)
(* Advisory ingest (OSV), advisory deletion and the deprecation flag of    *)
(* trustify, as a state machine over the relational tables they write.     *)
(*                                                                         *)
(* Option<T> is a sequence of length at most one: <<>> is None and <<x>>   *)
(* is Some(x).  A Vec<T> is a sequence.  A Rust tuple is a TLA+ tuple.     *)
(***************************************************************************)
EXTENDS Integers, Sequences, FiniteSets, TLC

VARIABLES
    db,         \* the committed tables: what every reader sees
    tx,         \* the tables as the open transaction sees them
    snap,       \* the committed tables when the request in service began
    pc,         \* position of the request in service ("idle": none)
    nextId,     \* number of advisories ingested so far, plus one
    doc,        \* load: the OSV document being ingested
    advisory,   \* load: id of the advisory row created by this load (0: none yet)
    cveIdx,     \* load: position in cve_ids
    sevIdx,     \* load: position in osv.severity
    affIdx,     \* load: position in osv.affected
    warnings,   \* load: the Warnings sink
    creator,    \* load: the purls added to the PurlCreator
    result,     \* load: Option<Result<IngestResult, Error>>
    key,        \* delete: the advisory key of the request
    fetched,    \* delete: Option<advisory row> returned by fetch_advisory
    returned,   \* delete: identifiers RETURNed by the DELETE statement, still to update
    affected,   \* delete: rows_affected
    response,   \* delete: Option<HTTP status>
    range_in,   \* range translation: Option<input>
    range_out,  \* range translation: Option<emitted rows>
    purl_db,    \* concurrent ingests: the committed rows of the PURL tables
    purl_tx,    \* concurrent ingests: the uncommitted rows of each ingest
    ingest_pc,  \* concurrent ingests: position of each ingest
    ingest_purls, \* concurrent ingests: the purls each ingest added to its creator
    label_db,   \* update_labels: the committed labels of each advisory row
    label_init, \* update_labels: the labels before any call
    label_lock, \* update_labels: the call that holds the row lock of each row (0: none)
    call_pc,    \* update_labels: position of each call
    call_args,  \* update_labels: (id, mutator) of each call
    call_row,   \* update_labels: Option<labels> each call read
    call_tx,    \* update_labels: Option<labels> each call wrote in its transaction
    call_res,   \* update_labels: Option<Result<Option<()>, Error>> of each call
    purl_in,    \* purl: Option<input>
    purl_out,   \* purl: Option<output>
    query_in,   \* query columns: Option<input>
    query_out,  \* query columns: Option<output>
    auth_in,    \* authenticator: Option<input>
    auth_out,   \* authenticator: Option<output>
    sbom_db,    \* sbom service: the committed rows of the SBOM tables
    sbom_tx,    \* sbom service: Option<rows of the open transaction>
    sbom_in,    \* sbom service: Option<input>
    sbom_out,   \* sbom service: Option<output>
    config_in,  \* configuration: Option<input>
    config_out, \* configuration: Option<output>
    deletes     \* concurrent DELETE requests: the state of each handler

vars == <<db, tx, snap, pc, nextId, doc, advisory, cveIdx, sevIdx, affIdx,
          warnings, creator, result, key, fetched, returned, affected,
          response, range_in, range_out, purl_db, purl_tx, ingest_pc,
          ingest_purls, label_db, label_init, label_lock, call_pc, call_args,
          call_row, call_tx, call_res, purl_in, purl_out, query_in, query_out,
          auth_in, auth_out, sbom_db, sbom_tx, sbom_in, sbom_out, config_in,
          config_out, deletes>>

loadVars == <<doc, advisory, cveIdx, sevIdx, affIdx, warnings, creator, result>>
deleteVars == <<key, fetched, returned, affected, response>>
rangeVars == <<range_in, range_out>>
requestVars == <<db, tx, snap, pc, nextId, loadVars, deleteVars>>
creatorVars == <<purl_db, purl_tx, ingest_pc, ingest_purls>>
labelVars == <<label_db, label_init, label_lock, call_pc, call_args, call_row,
               call_tx, call_res>>
purlVars == <<purl_in, purl_out>>
queryVars == <<query_in, query_out>>
authVars == <<auth_in, auth_out>>
sbomVars == <<sbom_db, sbom_tx, sbom_in, sbom_out>>
configVars == <<config_in, config_out>>
concurrentVars == <<deletes>>
otherVars == <<authVars, sbomVars, configVars, concurrentVars>>
componentVars == <<creatorVars, labelVars, purlVars, queryVars, otherVars>>
outsideCreators == <<requestVars, rangeVars, labelVars, purlVars, queryVars,
                     otherVars>>
outsideLabels == <<requestVars, rangeVars, creatorVars, purlVars, queryVars,
                   otherVars>>
outsidePurls == <<requestVars, rangeVars, creatorVars, labelVars, queryVars,
                  otherVars>>
outsideQuery == <<requestVars, rangeVars, creatorVars, labelVars, purlVars,
                  otherVars>>
outsideAuth == <<requestVars, rangeVars, creatorVars, labelVars, purlVars,
                 queryVars, sbomVars, configVars, concurrentVars>>
outsideSbom == <<requestVars, rangeVars, creatorVars, labelVars, purlVars,
                 queryVars, authVars, configVars, concurrentVars>>
outsideConfig == <<requestVars, rangeVars, creatorVars, labelVars, purlVars,
                   queryVars, authVars, sbomVars, concurrentVars>>

(***************************************************************************)
(* Bounds                                                                  *)
(***************************************************************************)
\* advisories ingested in one behaviour
MaxAdvisories == 3
\* events of one range in the range-translation specification
MaxEvents == 2
\* ingests that flush their PURL creators concurrently
MaxIngests == 2
\* calls of update_labels that run concurrently
MaxCalls == 2

RECURSIVE SeqsUpTo(_, _)
SeqsUpTo(S, n) ==
    IF n = 0 THEN {<<>>}
    ELSE LET shorter == SeqsUpTo(S, n - 1)
         IN  shorter \cup {Append(s, x) : s \in shorter, x \in S}

Max(S) == CHOOSE x \in S : \A y \in S : y <= x

(***************************************************************************)
(* OSV schema values (osv::schema)                                         *)
(***************************************************************************)
RangeTypes == {"Ecosystem", "Git", "Semver", "Unspecified"}

\* The ecosystems the dispatch of load names, and four it does not name.
Ecosystems ==
    {"Maven", "PyPI", "Python", "Go", "Npm", "Packagist", "NuGet", "RubyGems",
     "Hex", "SwiftURL", "Pub", "CratesIO", "Debian", "Linux", "OSSFuzz"}

EventKinds == {"Introduced", "Fixed", "LastAffected", "Limit"}
EventVersions == {"1", "2"}
Events == [kind : EventKinds, version : EventVersions]

Introduced(v) == [kind |-> "Introduced", version |-> v]
Fixed(v) == [kind |-> "Fixed", version |-> v]
LastAffected(v) == [kind |-> "LastAffected", version |-> v]
Limit(v) == [kind |-> "Limit", version |-> v]

\* affected.versions: the version list of OSV, in its order
VersionLists ==
    {<<>>, <<"1">>, <<"2">>, <<"3">>, <<"1", "2">>, <<"1", "3">>, <<"2", "3">>,
     <<"1", "2", "3">>}

(***************************************************************************)
(* Version specifications and status rows                                  *)
(***************************************************************************)
Unbounded == <<"Unbounded">>
Inclusive(v) == <<"Inclusive", v>>
Exclusive(v) == <<"Exclusive", v>>

Exact(v) == [kind |-> "Exact", version |-> v]
Range(low, high) == [kind |-> "Range", low |-> low, high |-> high]

VersionInfo(scheme, spec) == [scheme |-> scheme, spec |-> spec]

\* one call of AdvisoryVulnerabilityContext::ingest_package_status
StatusCall(purl, status, info) ==
    [purl |-> purl, status |-> status, scheme |-> info.scheme, spec |-> info.spec]

(***************************************************************************)
(* Purl                                                                    *)
(***************************************************************************)
\* a Purl of type generic without a namespace; qualifiers: the BTreeMap as the
\* sequence of its <<key, value>> entries in key order
Purl(name, version, qualifiers) ==
    [ty |-> "generic", namespace |-> <<>>, name |-> name, version |-> version,
     qualifiers |-> qualifiers]

with_version(purl, version) == [purl EXCEPT !.version = <<version>>]

to_base(purl) == [purl EXCEPT !.version = <<>>, !.qualifiers = <<>>]

to_version(purl) == [purl EXCEPT !.qualifiers = <<>>]

(***************************************************************************)
(* Range translation (loader.rs)                                           *)
(***************************************************************************)
RECURSIVE find_introduced(_)
find_introduced(events) ==
    IF events = <<>> THEN <<>>
    ELSE IF Head(events).kind = "Introduced" THEN <<Head(events).version>>
    ELSE find_introduced(Tail(events))

RECURSIVE find_end(_)
find_end(events) ==
    IF events = <<>> THEN <<>>
    ELSE IF Head(events).kind = "Fixed" THEN << <<Head(events).version, FALSE>> >>
    ELSE IF Head(events).kind = "LastAffected"
         THEN << <<Head(events).version, TRUE>> >>
    ELSE find_end(Tail(events))

\* the flag of the end read the wrong way round
events_to_range_flipped(events) ==
    LET end == find_end(events)
    IN  <<find_introduced(events),
          IF end = <<>> THEN <<>> ELSE << <<end[1][1], ~end[1][2]>> >> >>

events_to_range(events) == <<find_introduced(events), find_end(events)>>

create_package_status(purl, events, version_scheme) ==
    LET parsed_range == events_to_range(events)
        start == parsed_range[1]
        end == parsed_range[2]
        spec ==
            IF start # <<>> /\ end = <<>>
                THEN <<Range(Inclusive(start[1]), Unbounded)>>
            ELSE IF start = <<>> /\ end # <<>> /\ ~end[1][2]
                THEN <<Range(Unbounded, Exclusive(end[1][1]))>>
            ELSE IF start = <<>> /\ end # <<>> /\ end[1][2]
                THEN <<Range(Unbounded, Inclusive(end[1][1]))>>
            ELSE IF start # <<>> /\ end # <<>> /\ ~end[1][2]
                THEN <<Range(Inclusive(start[1]), Exclusive(end[1][1]))>>
            ELSE IF start # <<>> /\ end # <<>> /\ end[1][2]
                THEN <<Range(Inclusive(start[1]), Inclusive(end[1][1]))>>
            ELSE <<>>
        affectedRow ==
            IF spec # <<>>
                THEN <<StatusCall(purl, "affected", VersionInfo(version_scheme, spec[1]))>>
                ELSE <<>>
        fixedRow ==
            IF end # <<>> /\ ~end[1][2]
                THEN <<StatusCall(purl, "fixed",
                                  VersionInfo(version_scheme, Exact(end[1][1])))>>
                ELSE <<>>
    IN  affectedRow \o fixedRow

ingest_exact(purl, status, version) ==
    StatusCall(purl, status, VersionInfo("Generic", Exact(version)))

RECURSIVE match_versions_loop(_, _, _, _)
match_versions_loop(versions, start, end, matches) ==
    IF versions = <<>> THEN matches
    ELSE LET version == Head(versions)
         IN  IF matches = <<>>
                 THEN IF version = start
                          THEN match_versions_loop(Tail(versions), start, end,
                                                   << <<version>> >>)
                          ELSE match_versions_loop(Tail(versions), start, end, <<>>)
             ELSE IF end # <<>> /\ end[1] = version
                 THEN matches
             ELSE match_versions_loop(Tail(versions), start, end,
                                      <<Append(matches[1], version)>>)

match_versions(versions, start, end) ==
    LET matches == match_versions_loop(versions, start, end, <<>>)
    IN  IF matches = <<>> THEN <<>> ELSE matches[1]

ingest_range_from(purl, status, start, end, versions) ==
    LET matched == match_versions(versions, start, end)
    IN  [i \in 1..Len(matched) |-> ingest_exact(purl, status, matched[i])]

RECURSIVE versions_events_loop(_, _, _, _)
versions_events_loop(purl, events, start, versions) ==
    IF events = <<>>
        THEN IF start # <<>>
                 THEN ingest_range_from(purl, "affected", start[1], <<>>, versions)
                 ELSE <<>>
    ELSE LET event == Head(events)
         IN  IF event.kind = "Introduced"
                 THEN versions_events_loop(purl, Tail(events), <<event.version>>,
                                           versions)
             ELSE IF event.kind \in {"Fixed", "LastAffected"}
                 THEN (IF start # <<>>
                           THEN ingest_range_from(purl, "affected", start[1],
                                                  <<event.version>>, versions)
                           ELSE <<>>)
                      \o <<ingest_exact(purl, "fixed", event.version)>>
                      \o versions_events_loop(purl, Tail(events), <<>>, versions)
             ELSE versions_events_loop(purl, Tail(events), start, versions)

create_package_status_versions(purl, events, versions) ==
    versions_events_loop(purl, events, <<>>, versions)

\* the version scheme without the arm of Ecosystem ranges of Python packages
version_scheme_without_python(range_type, ecosystem) ==
    CASE range_type = "Semver" -> <<"Semver">>
      [] range_type = "Git" -> <<"Git">>
      [] range_type = "Ecosystem" /\ ecosystem = "Maven" -> <<"Maven">>
      [] range_type = "Ecosystem" /\ ecosystem = "PyPI" -> <<"Python">>
      [] range_type = "Ecosystem" /\ ecosystem = "Go" -> <<"Golang">>
      [] range_type = "Ecosystem" /\ ecosystem = "Npm" -> <<"Npm">>
      [] range_type = "Ecosystem" /\ ecosystem = "Packagist" -> <<"Packagist">>
      [] range_type = "Ecosystem" /\ ecosystem = "NuGet" -> <<"NuGet">>
      [] range_type = "Ecosystem" /\ ecosystem = "RubyGems" -> <<"Gem">>
      [] range_type = "Ecosystem" /\ ecosystem = "Hex" -> <<"Hex">>
      [] range_type = "Ecosystem" /\ ecosystem = "SwiftURL" -> <<"Swift">>
      [] range_type = "Ecosystem" /\ ecosystem = "Pub" -> <<"Pub">>
      [] OTHER -> <<>>

\* the arms of the match on (range.range_type, package.ecosystem) in load:
\* Some(scheme) for an arm that calls create_package_status, None for (_, _)
version_scheme(range_type, ecosystem) ==
    CASE range_type = "Semver" -> <<"Semver">>
      [] range_type = "Git" -> <<"Git">>
      [] range_type = "Ecosystem" /\ ecosystem = "Maven" -> <<"Maven">>
      [] range_type = "Ecosystem" /\ ecosystem \in {"PyPI", "Python"} -> <<"Python">>
      [] range_type = "Ecosystem" /\ ecosystem = "Go" -> <<"Golang">>
      [] range_type = "Ecosystem" /\ ecosystem = "Npm" -> <<"Npm">>
      [] range_type = "Ecosystem" /\ ecosystem = "Packagist" -> <<"Packagist">>
      [] range_type = "Ecosystem" /\ ecosystem = "NuGet" -> <<"NuGet">>
      [] range_type = "Ecosystem" /\ ecosystem = "RubyGems" -> <<"Gem">>
      [] range_type = "Ecosystem" /\ ecosystem = "Hex" -> <<"Hex">>
      [] range_type = "Ecosystem" /\ ecosystem = "SwiftURL" -> <<"Swift">>
      [] range_type = "Ecosystem" /\ ecosystem = "Pub" -> <<"Pub">>
      [] OTHER -> <<>>

\* a range of an unnamed (range type, ecosystem) pair skipped
range_status_skip(purl, range, ecosystem, versions) ==
    LET scheme == version_scheme(range.range_type, ecosystem)
    IN  IF scheme # <<>>
            THEN create_package_status(purl, range.events, scheme[1])
            ELSE <<>>

\* the body of `for range in affected.ranges` in load: the calls of
\* ingest_package_status it makes, in order
range_status(purl, range, ecosystem, versions) ==
    LET scheme == version_scheme(range.range_type, ecosystem)
    IN  IF scheme # <<>>
            THEN create_package_status(purl, range.events, scheme[1])
            ELSE create_package_status_versions(purl, range.events, versions)

(***************************************************************************)
(* Tables                                                                  *)
(***************************************************************************)
EmptyTables ==
    [advisory |-> {}, vulnerability |-> {}, advisory_vulnerability |-> {},
     cvss3 |-> {}, package_status |-> {},
     base_purl |-> {}, versioned_purl |-> {}, qualified_purl |-> {}]

\* Graph::ingest_advisory, the insert: a new row is current. Advisory ids
\* are handed out in ingest order, so the greatest id is the newest row.
InsertAdvisory(t, id, information) ==
    [t EXCEPT !.advisory = @ \cup
        {[id |-> id, identifier |-> information.id, deprecated |-> FALSE,
          withdrawn |-> information.withdrawn]}]

\* the oldest row of the identifier made current instead of the newest
UpdateDeprecatedOldest(t, identifier) ==
    LET same == {a \in t.advisory : a.identifier = identifier}
        oldest == CHOOSE x \in {a.id : a \in same} : \A a \in same : x <= a.id
    IN  [t EXCEPT !.advisory =
            {IF a \in same THEN [a EXCEPT !.deprecated = (a.id # oldest)] ELSE a
                : a \in @}]

\* UpdateDeprecatedAdvisory::execute: of the rows of the identifier, the
\* newest is current and every other is deprecated.
UpdateDeprecatedAdvisory(t, identifier) ==
    LET same == {a \in t.advisory : a.identifier = identifier}
        newest == Max({a.id : a \in same})
    IN  [t EXCEPT !.advisory =
            {IF a \in same THEN [a EXCEPT !.deprecated = (a.id # newest)] ELSE a
                : a \in @}]

set_withdrawn_at(t, id) ==
    [t EXCEPT !.advisory =
        {IF a.id = id THEN [a EXCEPT !.withdrawn = TRUE] ELSE a : a \in @}]

ingest_vulnerability(t, cve_id) ==
    [t EXCEPT !.vulnerability = @ \cup {cve_id}]

link_to_vulnerability(t, id, cve_id) ==
    [t EXCEPT !.advisory_vulnerability = @ \cup
        {[advisory |-> id, vulnerability |-> cve_id]}]

ingest_cvss3_score(t, id, cve_id, cvss3) ==
    [t EXCEPT !.cvss3 = @ \cup
        {[advisory |-> id, vulnerability |-> cve_id, vector |-> cvss3]}]

ingest_package_status(t, id, cve_id, calls) ==
    [t EXCEPT !.package_status = @ \cup
        {[advisory |-> id, vulnerability |-> cve_id, purl |-> calls[i].purl,
          status |-> calls[i].status, scheme |-> calls[i].scheme,
          spec |-> calls[i].spec] : i \in 1..Len(calls)}]

\* PurlCreator::create: the three levels, each ON CONFLICT DO NOTHING
PurlCreatorCreate(t, purls) ==
    [t EXCEPT !.base_purl = @ \cup {to_base(p) : p \in purls},
              !.versioned_purl = @ \cup {to_version(p) : p \in purls},
              !.qualified_purl = @ \cup purls]

\* DELETE FROM advisory WHERE id=$1, with the rows that hang from the advisory
DeleteAdvisoryRows(t, id) ==
    [t EXCEPT !.advisory = {a \in @ : a.id # id},
              !.advisory_vulnerability = {r \in @ : r.advisory # id},
              !.cvss3 = {r \in @ : r.advisory # id},
              !.package_status = {r \in @ : r.advisory # id}]

\* PurlService::gc_purls: purls no status row refers to are removed
GcPurls(t) ==
    LET used == {to_base(r.purl) : r \in t.package_status}
    IN  [t EXCEPT !.base_purl = {p \in @ : p \in used},
                  !.versioned_purl = {p \in @ : to_base(p) \in used},
                  !.qualified_purl = {p \in @ : to_base(p) \in used}]

(***************************************************************************)
(* OSV documents                                                           *)
(***************************************************************************)
Identifiers == {"OSV-A", "OSV-B"}

IsCve(alias) == alias \in {"CVE-1", "CVE-2"}

AliasLists ==
    {<<>>, <<"GHSA-1">>, <<"CVE-1">>, <<"GHSA-1", "CVE-1">>, <<"CVE-1", "CVE-2">>}

GoodVector == "CVSS:3.1/AV:N/AC:L/PR:N/UI:N/S:U/C:N/I:H/A:H"
BadVector == "CVSS:3.1/garbage"

\* Cvss3Base::from_str
Cvss3FromStr(score) == IF score = GoodVector THEN <<score>> ELSE <<>>

Severities ==
    [severity_type : {"CVSSv3", "CVSSv2"}, score : {GoodVector, BadVector}]

SeverityLists ==
    {<<>>} \cup {<<s>> : s \in Severities}
    \cup {<<[severity_type |-> "CVSSv3", score |-> BadVector],
            [severity_type |-> "CVSSv3", score |-> GoodVector]>>}

GoodPurl == "pkg:generic/b@9?k=v"
BadPurl == "not a purl"

\* Purl::from_str
PurlFromStr(s) ==
    IF s = GoodPurl THEN <<Purl("b", <<"9">>, << <<"k", "v">> >>)>> ELSE <<>>

\* translate::to_purl: the ecosystems that have a translation to a purl
TranslatedEcosystems == {"Maven", "PyPI", "Go", "Npm", "CratesIO"}

to_purl(package) ==
    IF package.ecosystem \in TranslatedEcosystems
        THEN <<Purl(package.name, <<>>, <<>>)>>
        ELSE <<>>

DocEcosystems == {"Maven", "CratesIO", "Debian"}

Packages ==
    [ecosystem : DocEcosystems, name : {"a"},
     purl : {<<>>, <<BadPurl>>, <<GoodPurl>>}]

DocRanges ==
    [range_type : {"Ecosystem", "Semver"},
     events : {<<Introduced("1")>>, <<Introduced("1"), Fixed("2")>>,
               <<Introduced("1"), LastAffected("2")>>}]

AffectedEntries ==
    [package : {<<>>} \cup {<<p>> : p \in Packages},
     versions : {<<>>, <<"1", "2", "3">>},
     ranges : {<<>>} \cup {<<r>> : r \in DocRanges}]

NoPackage == [package |-> <<>>, versions |-> <<"1", "2", "3">>, ranges |-> <<>>]

AffectedLists ==
    {<<>>} \cup {<<e>> : e \in AffectedEntries}
    \cup {<<NoPackage, e>> : e \in AffectedEntries}

OsvDocs ==
    [id : {"OSV-A"}, withdrawn : BOOLEAN, aliases : AliasLists,
     severity : SeverityLists, affected : AffectedLists]

\* the documents of the advisory life cycle: one that writes the advisory row
\* only, and one that writes a row to every table
FullEntry ==
    [package |-> <<[ecosystem |-> "Maven", name |-> "a", purl |-> <<GoodPurl>>]>>,
     versions |-> <<"1", "2", "3">>,
     ranges |-> <<[range_type |-> "Ecosystem",
                   events |-> <<Introduced("1"), Fixed("2")>>]>>]

LifecycleDocs ==
    [id : Identifiers, withdrawn : {FALSE}, aliases : {<<>>},
     severity : {<<>>}, affected : {<<>>}]
    \cup
    [id : Identifiers, withdrawn : {TRUE}, aliases : {<<"CVE-1">>},
     severity : {<<[severity_type |-> "CVSSv3", score |-> GoodVector]>>},
     affected : {<<FullEntry>>}]

NoDoc ==
    [id |-> "", withdrawn |-> FALSE, aliases |-> <<>>, severity |-> <<>>,
     affected |-> <<>>]

(***************************************************************************)
(* Concurrent ingests: the state before any of them began                  *)
(***************************************************************************)
Ingests == 1..MaxIngests

PurlLevels == {"base_purl", "versioned_purl", "qualified_purl"}

EmptyPurlTables == [level \in PurlLevels |-> {}]

InitCreators ==
    /\ purl_db = EmptyPurlTables
    /\ purl_tx = [i \in Ingests |-> EmptyPurlTables]
    /\ ingest_pc = [i \in Ingests |-> "idle"]
    /\ ingest_purls = [i \in Ingests |-> {}]

InitComponents ==
    /\ InitCreators

(***************************************************************************)
(* update_labels: the state before any call                                *)
(***************************************************************************)
Calls == 1..MaxCalls

\* the ids a call may name: 1 is an advisory row, 2 matches no row
LabelIds == {1, 2}

\* Labels: a map from keys to values, as a set of <<key, value>> with one
\* value per key
LabelTables ==
    {[id \in LabelIds |-> IF id = 1 THEN <<labels>> ELSE <<>>] :
        labels \in {{}, {<<"x", "1">>}, {<<"x", "2">>, <<"y", "1">>}}}

NoCall == [id |-> 0, mutator |-> [op |-> "none"]]

IdleCalls ==
    /\ label_lock = [id \in LabelIds |-> 0]
    /\ call_pc = [c \in Calls |-> "idle"]
    /\ call_args = [c \in Calls |-> NoCall]
    /\ call_row = [c \in Calls |-> <<>>]
    /\ call_tx = [c \in Calls |-> <<>>]
    /\ call_res = [c \in Calls |-> <<>>]

IdleLabels ==
    /\ label_db = [id \in LabelIds |-> <<>>]
    /\ label_init = label_db
    /\ IdleCalls

IdleRange ==
    /\ range_in = <<>>
    /\ range_out = <<>>

IdlePurls ==
    /\ purl_in = <<>>
    /\ purl_out = <<>>

IdleQuery ==
    /\ query_in = <<>>
    /\ query_out = <<>>

IdleAuth ==
    /\ auth_in = <<>>
    /\ auth_out = <<>>

IdleSbom ==
    /\ sbom_db = <<>>
    /\ sbom_tx = <<>>
    /\ sbom_in = <<>>
    /\ sbom_out = <<>>

IdleConfig ==
    /\ config_in = <<>>
    /\ config_out = <<>>

IdleDeletes == deletes = <<>>

IdleOthers == IdleAuth /\ IdleSbom /\ IdleConfig /\ IdleDeletes

(***************************************************************************)
(* Initial state                                                           *)
(***************************************************************************)
InitRequests ==
    /\ InitComponents
    /\ db = EmptyTables
    /\ tx = EmptyTables
    /\ snap = EmptyTables
    /\ pc = "idle"
    /\ nextId = 1
    /\ doc = NoDoc
    /\ advisory = 0
    /\ cveIdx = 0
    /\ sevIdx = 0
    /\ affIdx = 0
    /\ warnings = <<>>
    /\ creator = {}
    /\ result = <<>>
    /\ key = 0
    /\ fetched = <<>>
    /\ returned = <<>>
    /\ affected = 0
    /\ response = <<>>

Init ==
    /\ InitRequests
    /\ IdleRange
    /\ IdleLabels
    /\ IdlePurls
    /\ IdleQuery
    /\ IdleOthers

(***************************************************************************)
(* OsvLoader::load                                                         *)
(***************************************************************************)
Quiescent == pc \in {"idle", "done"}

cve_ids(osv) == SelectSeq(osv.aliases, IsCve)

AdvisoryInformation(osv) == [id |-> osv.id, withdrawn |-> osv.withdrawn]

Ok(id, osv, sink) ==
    [kind |-> "Ok", id |-> id, document_id |-> <<osv.id>>, warnings |-> sink]

\* the error of the await that failed
Err(step) == [kind |-> "Err", step |-> step]

RECURSIVE Concat(_)
Concat(ss) == IF ss = <<>> THEN <<>> ELSE Head(ss) \o Concat(Tail(ss))

\* the purl candidates of a package
purls_of(package) ==
    to_purl(package)
    \o (IF package.purl # <<>> THEN PurlFromStr(package.purl[1]) ELSE <<>>)

\* the candidates added as they are, without the versions
affected_purls_unversioned(entry) ==
    IF entry.package = <<>> THEN {}
    ELSE LET purls == purls_of(entry.package[1])
         IN  {purls[i] : i \in 1..Len(purls)}

\* the purls one affected entry adds to the PurlCreator
affected_purls(entry) ==
    IF entry.package = <<>> THEN {}
    ELSE LET purls == purls_of(entry.package[1])
         IN  {with_version(purls[i], entry.versions[j]) :
                 i \in 1..Len(purls), j \in 1..Len(entry.versions)}

\* the ingest_package_status calls of one affected entry, in call order
affected_status(entry) ==
    IF entry.package = <<>> THEN <<>>
    ELSE LET package == entry.package[1]
             purls == purls_of(package)
         IN  Concat([i \in 1..Len(purls) |->
                 Concat([j \in 1..Len(entry.ranges) |->
                     range_status(purls[i], entry.ranges[j], package.ecosystem,
                                  entry.versions)])])

\* where the loops of load go after the step at (cve, sev, aff)
AfterAffected(cve) ==
    IF cve < Len(cve_ids(doc))
        THEN [pc |-> "vulnerability", cve |-> cve + 1, sev |-> 0, aff |-> 0]
        ELSE [pc |-> "create", cve |-> cve, sev |-> 0, aff |-> 0]

AfterSeverity(cve) ==
    IF Len(doc.affected) > 0
        THEN [pc |-> "affected", cve |-> cve, sev |-> 0, aff |-> 1]
        ELSE AfterAffected(cve)

AfterVulnerability(cve) ==
    IF Len(doc.severity) > 0
        THEN [pc |-> "severity", cve |-> cve, sev |-> 1, aff |-> 0]
        ELSE AfterSeverity(cve)

Goto(pos) ==
    /\ pc' = pos.pc
    /\ cveIdx' = pos.cve
    /\ sevIdx' = pos.sev
    /\ affIdx' = pos.aff

LoadStart(osv) ==
    /\ Quiescent
    /\ nextId <= MaxAdvisories
    /\ pc' = "begin"
    /\ doc' = osv
    /\ advisory' = 0
    /\ cveIdx' = 0
    /\ sevIdx' = 0
    /\ affIdx' = 0
    /\ warnings' = <<>>
    /\ creator' = {}
    /\ result' = <<>>
    /\ key' = 0
    /\ fetched' = <<>>
    /\ returned' = <<>>
    /\ affected' = 0
    /\ response' = <<>>
    /\ snap' = db
    /\ UNCHANGED <<db, tx, nextId, rangeVars, componentVars>>

LoadBegin ==
    /\ pc = "begin"
    /\ tx' = db
    /\ pc' = "ingest_advisory"
    /\ UNCHANGED <<db, snap, nextId, doc, advisory, cveIdx, sevIdx, affIdx, warnings,
                   creator, result, deleteVars, rangeVars, componentVars>>

\* ingest_advisory on the pool connection instead of the transaction
LoadIngestAdvisoryOnPool ==
    /\ pc = "ingest_advisory"
    /\ tx' = InsertAdvisory(tx, nextId, AdvisoryInformation(doc))
    /\ db' = InsertAdvisory(db, nextId, AdvisoryInformation(doc))
    /\ advisory' = nextId
    /\ nextId' = nextId + 1
    /\ pc' = "update_deprecated"
    /\ UNCHANGED <<snap, doc, cveIdx, sevIdx, affIdx, warnings, creator,
                   result, deleteVars, rangeVars, componentVars>>

LoadIngestAdvisory ==
    /\ pc = "ingest_advisory"
    /\ tx' = InsertAdvisory(tx, nextId, AdvisoryInformation(doc))
    /\ advisory' = nextId
    /\ nextId' = nextId + 1
    /\ pc' = "update_deprecated"
    /\ UNCHANGED <<db, snap, doc, cveIdx, sevIdx, affIdx, warnings, creator,
                   result, deleteVars, rangeVars, componentVars>>

LoadUpdateDeprecated ==
    /\ pc = "update_deprecated"
    /\ tx' = UpdateDeprecatedAdvisory(tx, doc.id)
    /\ pc' = "withdrawn"
    /\ UNCHANGED <<db, snap, nextId, doc, advisory, cveIdx, sevIdx, affIdx,
                   warnings, creator, result, deleteVars, rangeVars, componentVars>>

LoadSetWithdrawn ==
    /\ pc = "withdrawn"
    /\ tx' = IF doc.withdrawn THEN set_withdrawn_at(tx, advisory) ELSE tx
    /\ Goto(AfterAffected(0))
    /\ UNCHANGED <<db, snap, nextId, doc, advisory, warnings, creator, result,
                   deleteVars, rangeVars, componentVars>>

LoadVulnerability ==
    /\ pc = "vulnerability"
    /\ LET cve_id == cve_ids(doc)[cveIdx]
       IN  tx' = link_to_vulnerability(ingest_vulnerability(tx, cve_id),
                                       advisory, cve_id)
    /\ Goto(AfterVulnerability(cveIdx))
    /\ UNCHANGED <<db, snap, nextId, doc, advisory, warnings, creator, result,
                   deleteVars, rangeVars, componentVars>>

ParseWarning(severity) ==
    [kind |-> "Unable to parse CVSS3", value |-> severity.score]

\* a CVSS vector that does not parse returned as an error
LoadSeverityStrict ==
    /\ pc = "severity"
    /\ LET severity == doc.severity[sevIdx]
           cve_id == cve_ids(doc)[cveIdx]
           cvss3 == Cvss3FromStr(severity.score)
       IN  IF severity.severity_type = "CVSSv3" /\ cvss3 = <<>>
               THEN /\ result' = <<Err("severity")>>
                    /\ tx' = db
                    /\ Goto([pc |-> "done", cve |-> 0, sev |-> 0, aff |-> 0])
                    /\ warnings' = <<>>
               ELSE /\ tx' = IF severity.severity_type = "CVSSv3"
                                 THEN ingest_cvss3_score(tx, advisory, cve_id, cvss3[1])
                                 ELSE tx
                    /\ warnings' = warnings
                    /\ result' = result
                    /\ IF sevIdx < Len(doc.severity)
                           THEN Goto([pc |-> "severity", cve |-> cveIdx,
                                      sev |-> sevIdx + 1, aff |-> 0])
                           ELSE Goto(AfterSeverity(cveIdx))
    /\ UNCHANGED <<db, snap, nextId, doc, advisory, creator, deleteVars, rangeVars, componentVars>>

LoadSeverity ==
    /\ pc = "severity"
    /\ LET severity == doc.severity[sevIdx]
           cve_id == cve_ids(doc)[cveIdx]
           cvss3 == Cvss3FromStr(severity.score)
       IN  IF severity.severity_type = "CVSSv3"
               THEN IF cvss3 # <<>>
                        THEN /\ tx' = ingest_cvss3_score(tx, advisory, cve_id, cvss3[1])
                             /\ warnings' = warnings
                        ELSE /\ tx' = tx
                             /\ warnings' = Append(warnings, ParseWarning(severity))
               ELSE /\ tx' = tx
                    /\ warnings' = warnings
    /\ IF sevIdx < Len(doc.severity)
           THEN Goto([pc |-> "severity", cve |-> cveIdx, sev |-> sevIdx + 1, aff |-> 0])
           ELSE Goto(AfterSeverity(cveIdx))
    /\ UNCHANGED <<db, snap, nextId, doc, advisory, creator, result, deleteVars,
                   rangeVars, componentVars>>

LoadAffected ==
    /\ pc = "affected"
    /\ LET entry == doc.affected[affIdx]
           cve_id == cve_ids(doc)[cveIdx]
       IN  /\ creator' = creator \cup affected_purls(entry)
           /\ tx' = ingest_package_status(tx, advisory, cve_id, affected_status(entry))
    /\ IF affIdx < Len(doc.affected)
           THEN Goto([pc |-> "affected", cve |-> cveIdx, sev |-> 0, aff |-> affIdx + 1])
           ELSE Goto(AfterAffected(cveIdx))
    /\ UNCHANGED <<db, snap, nextId, doc, advisory, warnings, result, deleteVars,
                   rangeVars, componentVars>>

\* the creator flushed on the pool connection instead of the transaction
LoadCreateOnPool ==
    /\ pc = "create"
    /\ tx' = PurlCreatorCreate(tx, creator)
    /\ db' = PurlCreatorCreate(db, creator)
    /\ pc' = "commit"
    /\ UNCHANGED <<snap, nextId, doc, advisory, cveIdx, sevIdx, affIdx,
                   warnings, creator, result, deleteVars, rangeVars, componentVars>>

LoadCreate ==
    /\ pc = "create"
    /\ tx' = PurlCreatorCreate(tx, creator)
    /\ pc' = "commit"
    /\ UNCHANGED <<db, snap, nextId, doc, advisory, cveIdx, sevIdx, affIdx,
                   warnings, creator, result, deleteVars, rangeVars, componentVars>>

LoadCommit ==
    /\ pc = "commit"
    /\ db' = tx
    /\ result' = <<Ok(advisory, doc, warnings)>>
    /\ pc' = "done"
    /\ UNCHANGED <<tx, snap, nextId, doc, advisory, cveIdx, sevIdx, affIdx,
                   warnings, creator, deleteVars, rangeVars, componentVars>>

LoadSteps ==
    {"begin", "ingest_advisory", "update_deprecated", "withdrawn", "vulnerability",
     "severity", "affected", "create", "commit"}

\* the step at pc awaits a database call
Awaits ==
    CASE pc = "withdrawn" -> doc.withdrawn
      [] pc = "severity" ->
            /\ doc.severity[sevIdx].severity_type = "CVSSv3"
            /\ Cvss3FromStr(doc.severity[sevIdx].score) # <<>>
      [] pc = "affected" -> affected_status(doc.affected[affIdx]) # <<>>
      [] OTHER -> pc \in LoadSteps

\* an await of load returns an error (or the task is dropped there): the
\* transaction is dropped without a commit
LoadFail ==
    /\ Awaits
    /\ result' = <<Err(pc)>>
    /\ tx' = db
    /\ pc' = "done"
    /\ advisory' = 0
    /\ cveIdx' = 0
    /\ sevIdx' = 0
    /\ affIdx' = 0
    /\ warnings' = <<>>
    /\ creator' = {}
    /\ UNCHANGED <<db, snap, nextId, doc, deleteVars, rangeVars, componentVars>>

(***************************************************************************)
(* DELETE /v2/advisory/{key}                                               *)
(***************************************************************************)
Keys == 1..MaxAdvisories

\* AdvisoryService::fetch_advisory by the uuid of the key
fetch_advisory(t, id) ==
    IF \E a \in t.advisory : a.id = id
        THEN <<CHOOSE a \in t.advisory : a.id = id>>
        ELSE <<>>

DeleteStart(k) ==
    /\ Quiescent
    /\ pc' = "delete_begin"
    /\ key' = k
    /\ fetched' = <<>>
    /\ returned' = <<>>
    /\ affected' = 0
    /\ response' = <<>>
    /\ doc' = NoDoc
    /\ advisory' = 0
    /\ cveIdx' = 0
    /\ sevIdx' = 0
    /\ affIdx' = 0
    /\ warnings' = <<>>
    /\ creator' = {}
    /\ result' = <<>>
    /\ snap' = db
    /\ UNCHANGED <<db, tx, nextId, rangeVars, componentVars>>

DeleteBegin ==
    /\ pc = "delete_begin"
    /\ tx' = db
    /\ pc' = "delete_fetch"
    /\ UNCHANGED <<db, snap, nextId, loadVars, deleteVars, rangeVars, componentVars>>

DeleteFetch ==
    /\ pc = "delete_fetch"
    /\ fetched' = fetch_advisory(tx, key)
    /\ IF fetched' # <<>>
           THEN /\ pc' = "delete_advisory"
                /\ UNCHANGED <<tx, response>>
           ELSE /\ pc' = "done"
                /\ response' = <<404>>
                /\ tx' = db
    /\ UNCHANGED <<db, snap, nextId, loadVars, key, returned, affected, rangeVars, componentVars>>

\* the end of the handler, once delete_advisory has returned rows_affected
DeleteMatch(rows_affected) ==
    IF rows_affected = 0
        THEN /\ pc' = "done"
             /\ response' = <<404>>
             /\ tx' = db
    ELSE IF rows_affected = 1
        THEN /\ pc' = "delete_gc"
             /\ UNCHANGED <<tx, response>>
    ELSE /\ pc' = "done"
         /\ response' = <<500>>
         /\ tx' = db

\* delete_advisory runs on the pool connection instead of the transaction
DeleteAdvisoryAutocommit ==
    /\ pc = "delete_advisory"
    /\ LET id == fetched[1].id
       IN  /\ returned' = <<fetched[1].identifier>>
           /\ affected' = 1
           /\ db' = DeleteAdvisoryRows(db, id)
           /\ tx' = DeleteAdvisoryRows(tx, id)
           /\ pc' = "delete_update"
    /\ UNCHANGED <<snap, nextId, loadVars, key, fetched, response, rangeVars,
                   componentVars>>

\* delete_advisory: the DELETE ... RETURNING identifier statement
DeleteAdvisory ==
    /\ pc = "delete_advisory"
    /\ LET id == fetched[1].id
           rows == {a \in tx.advisory : a.id = id}
           result_rows ==
               IF rows = {} THEN <<>> ELSE <<(CHOOSE a \in rows : TRUE).identifier>>
       IN  /\ returned' = result_rows
           /\ affected' = Len(result_rows)
           /\ IF result_rows # <<>>
                  THEN /\ tx' = DeleteAdvisoryRows(tx, id)
                       /\ pc' = "delete_update"
                       /\ UNCHANGED response
                  ELSE DeleteMatch(0)
    /\ UNCHANGED <<db, snap, nextId, loadVars, key, fetched, rangeVars, componentVars>>

\* delete_advisory without the loop over the returned rows
DeleteWithoutUpdate ==
    /\ pc = "delete_update"
    /\ returned' = <<>>
    /\ DeleteMatch(affected)
    /\ UNCHANGED <<db, snap, nextId, loadVars, key, fetched, affected, rangeVars, componentVars>>

\* delete_advisory: UpdateDeprecatedAdvisory for one returned row
DeleteUpdateDeprecated ==
    /\ pc = "delete_update"
    /\ returned' = Tail(returned)
    /\ IF returned' # <<>>
           THEN /\ tx' = UpdateDeprecatedAdvisory(tx, Head(returned))
                /\ pc' = "delete_update"
                /\ UNCHANGED response
           ELSE /\ tx' = UpdateDeprecatedAdvisory(tx, Head(returned))
                /\ pc' = "delete_gc"
                /\ UNCHANGED response
    /\ UNCHANGED <<db, snap, nextId, loadVars, key, fetched, affected, rangeVars, componentVars>>

\* gc_purls, whose failure is ignored
DeleteGc ==
    /\ pc = "delete_gc"
    /\ \/ tx' = GcPurls(tx)
       \/ tx' = tx
    /\ pc' = "delete_commit"
    /\ UNCHANGED <<db, snap, nextId, loadVars, deleteVars, rangeVars, componentVars>>

DeleteCommit ==
    /\ pc = "delete_commit"
    /\ db' = tx
    /\ response' = <<200>>
    /\ pc' = "done"
    /\ UNCHANGED <<tx, snap, nextId, loadVars, key, fetched, returned, affected,
                   rangeVars, componentVars>>

DeleteSteps ==
    {"delete_begin", "delete_fetch", "delete_advisory", "delete_update",
     "delete_commit"}

\* an await of the handler returns an error: no commit
DeleteFail ==
    /\ pc \in DeleteSteps
    /\ response' = <<500>>
    /\ tx' = db
    /\ pc' = "done"
    /\ UNCHANGED <<db, snap, nextId, loadVars, key, fetched, returned, affected,
                   rangeVars, componentVars>>

(***************************************************************************)
(* Specifications                                                          *)
(***************************************************************************)
Load ==
    \/ LoadBegin
    \/ LoadIngestAdvisory
    \/ LoadUpdateDeprecated
    \/ LoadSetWithdrawn
    \/ LoadVulnerability
    \/ LoadSeverity
    \/ LoadAffected
    \/ LoadCreate
    \/ LoadCommit
    \/ LoadFail

Delete ==
    \/ DeleteBegin
    \/ DeleteFetch
    \/ DeleteAdvisory
    \/ DeleteUpdateDeprecated
    \/ DeleteGc
    \/ DeleteCommit
    \/ DeleteFail

\* ingests and deletes of advisories, one request at a time
Next ==
    \/ \E osv \in LifecycleDocs : LoadStart(osv)
    \/ Load
    \/ \E k \in Keys : DeleteStart(k)
    \/ Delete

Spec == Init /\ [][Next]_vars

\* one load, of any document of OsvDocs, into the empty database
NextLoad ==
    \/ pc = "idle" /\ \E osv \in OsvDocs : LoadStart(osv)
    \/ Load

SpecLoad == Init /\ [][NextLoad]_vars

(***************************************************************************)
(* The range translation on its own: one range of a package, of any range  *)
(* type, ecosystem, event list and version list                            *)
(***************************************************************************)
RangeInputs ==
    [range_type : RangeTypes, ecosystem : Ecosystems,
     events : SeqsUpTo(Events, MaxEvents), versions : VersionLists]

RangePurl == Purl("a", <<>>, <<>>)

InitRange ==
    /\ InitRequests
    /\ range_in \in {<<i>> : i \in RangeInputs}
    /\ range_out = <<>>
    /\ IdleLabels
    /\ IdlePurls
    /\ IdleQuery
    /\ IdleOthers

\* one iteration of `for range in affected.ranges` in load
RangeApply ==
    /\ range_in # <<>>
    /\ range_out = <<>>
    /\ LET in == range_in[1]
       IN  range_out' =
               <<range_status(RangePurl,
                              [range_type |-> in.range_type, events |-> in.events],
                              in.ecosystem, in.versions)>>
    /\ UNCHANGED <<requestVars, range_in, componentVars>>

NextRange == RangeApply

SpecRange == InitRange /\ [][NextRange]_vars

(***************************************************************************)
(* Deprecation of advisories                                               *)
(***************************************************************************)
Current(t, identifier) ==
    {a \in t.advisory : a.identifier = identifier /\ ~a.deprecated}

Stored(t, identifier) == {a \in t.advisory : a.identifier = identifier}

LoadCommitted == pc = "done" /\ result # <<>> /\ result[1].kind = "Ok"

LoadFailed == pc = "done" /\ result # <<>> /\ result[1].kind = "Err"

Deleted == pc = "done" /\ response = <<200>>

\* C1: in every committed state of the tables, whatever ingests and deletes
\* have run or are in progress, at most one advisory of an identifier is
\* not deprecated.
C1_AtMostOneCurrent ==
    \A identifier \in Identifiers : Cardinality(Current(db, identifier)) <= 1

\* an ingest committed after a delete: an identifier has two or more
\* advisories, exactly one of them current, and an earlier advisory is gone
C1_Witness ==
    /\ LoadCommitted
    /\ \E a \in db.advisory :
        /\ \E b \in db.advisory : b.id # a.id /\ b.identifier = a.identifier
        /\ Cardinality(Current(db, a.identifier)) = 1
        /\ \E id \in 1..(nextId - 1) : \A b \in db.advisory : b.id # id

\* C2: once the ingest of a document has committed, every advisory that was
\* stored under the document's identifier before is deprecated, and the one
\* advisory of that identifier that is not deprecated is the new one.
C2_IngestDeprecatesPrevious ==
    (LoadCommitted /\ Stored(snap, doc.id) # {}) =>
        /\ \A a \in Stored(snap, doc.id) :
            \E b \in db.advisory : b.id = a.id /\ b.deprecated
        /\ \E new \in db.advisory :
            /\ new.id = result[1].id
            /\ new.id \notin {a.id : a \in snap.advisory}
            /\ Current(db, doc.id) = {new}

\* an ingest committed over two stored advisories of its identifier
C2_Witness ==
    /\ LoadCommitted
    /\ Cardinality(Stored(snap, doc.id)) = 2
    /\ Cardinality(Current(snap, doc.id)) = 1

\* C3: when a delete has removed the current advisory of an identifier and
\* other advisories of the identifier remain, the newest of them is current
\* (and the others are deprecated).
C3_DeletePromotesNewest ==
    (/\ Deleted
     /\ ~fetched[1].deprecated
     /\ Stored(db, fetched[1].identifier) # {}) =>
        LET remaining == Stored(db, fetched[1].identifier)
            newest == CHOOSE a \in remaining : \A b \in remaining : b.id <= a.id
        IN  /\ fetched[1] \notin db.advisory
            /\ Current(db, fetched[1].identifier) = {newest}

\* the current advisory of an identifier deleted while two others remain
C3_Witness ==
    /\ Deleted
    /\ ~fetched[1].deprecated
    /\ Cardinality(Stored(db, fetched[1].identifier)) = 2

(***************************************************************************)
(* The transaction of load                                                 *)
(***************************************************************************)
\* C4: from the start of a load until its commit, and after a load that
\* returned an error, the committed tables are the tables the load found:
\* no row the load wrote is visible.
C4_NoPartialWrites ==
    (doc # NoDoc /\ ~LoadCommitted) => db = snap

\* a load that failed at its commit, after it wrote a row to every table,
\* over a database that held advisories
C4_Witness ==
    /\ LoadFailed
    /\ result[1].step = "commit"
    /\ doc.affected # <<>>
    /\ db.advisory # {}
    /\ db = snap

(***************************************************************************)
(* Warnings of load                                                        *)
(***************************************************************************)
Unparsable(severity) ==
    severity.severity_type = "CVSSv3" /\ Cvss3FromStr(severity.score) = <<>>

\* the dispatch table of the affected ranges: (range type, ecosystem, scheme)
DispatchTable ==
    {<<"Semver", e, "Semver">> : e \in Ecosystems}
    \cup {<<"Git", e, "Git">> : e \in Ecosystems}
    \cup {<<"Ecosystem", "Maven", "Maven">>, <<"Ecosystem", "PyPI", "Python">>,
          <<"Ecosystem", "Python", "Python">>, <<"Ecosystem", "Go", "Golang">>,
          <<"Ecosystem", "Npm", "Npm">>, <<"Ecosystem", "Packagist", "Packagist">>,
          <<"Ecosystem", "NuGet", "NuGet">>, <<"Ecosystem", "RubyGems", "Gem">>,
          <<"Ecosystem", "Hex", "Hex">>, <<"Ecosystem", "SwiftURL", "Swift">>,
          <<"Ecosystem", "Pub", "Pub">>}

Recognised(range_type, ecosystem) ==
    \E t \in DispatchTable : t[1] = range_type /\ t[2] = ecosystem

\* the ranges of an unrecognised pair that load reaches: (entry, purl, range)
\* positions of the document, which has a CVE alias
UnrecognisedRanges(osv) ==
    IF cve_ids(osv) = <<>> THEN {}
    ELSE {r \in (DOMAIN osv.affected) \X (1..2) \X (1..1) :
            /\ osv.affected[r[1]].package # <<>>
            /\ r[2] \in DOMAIN purls_of(osv.affected[r[1]].package[1])
            /\ r[3] \in DOMAIN osv.affected[r[1]].ranges
            /\ ~Recognised(osv.affected[r[1]].ranges[r[3]].range_type,
                           osv.affected[r[1]].package[1].ecosystem)}

\* C5 as stated: a committed load of a document with a CVSSv3 severity whose
\* vector does not parse returns a warning for that severity.
C5_Original ==
    LoadCommitted =>
        \A i \in DOMAIN doc.severity :
            Unparsable(doc.severity[i]) =>
                \E j \in DOMAIN result[1].warnings :
                    result[1].warnings[j] = ParseWarning(doc.severity[i])

\* C5, amended: the severities are read once per CVE alias. The step of load
\* at a CVSSv3 severity whose vector does not parse appends the warning,
\* writes nothing and goes on to the next step of load; and a committed load
\* returns, for each CVE alias in turn, one warning per such severity.
C5_WarningPerCveAlias ==
    /\ [](LoadCommitted =>
            LET bad == SelectSeq(doc.severity, Unparsable)
                n == Len(cve_ids(doc)) * Len(bad)
            IN  /\ Len(result[1].warnings) = n
                /\ \A i \in 1..n :
                    result[1].warnings[i] = ParseWarning(bad[((i - 1) % Len(bad)) + 1]))
    /\ [][(pc = "severity" /\ Unparsable(doc.severity[sevIdx])) =>
            /\ pc' \in LoadSteps
            /\ warnings' = Append(warnings, ParseWarning(doc.severity[sevIdx]))
            /\ tx' = tx]_vars

\* a load with a CVE alias and an unparsable vector committed, returned the
\* warning, and wrote the status rows that come after the severities
C5_Witness ==
    /\ LoadCommitted
    /\ cve_ids(doc) # <<>>
    /\ \E i \in DOMAIN doc.severity : Unparsable(doc.severity[i])
    /\ result[1].warnings # <<>>
    /\ \E r \in db.package_status : r.advisory = result[1].id

VersionedCandidates(osv) ==
    UNION {IF osv.affected[e].package = <<>> THEN {}
           ELSE {with_version(purls_of(osv.affected[e].package[1])[i],
                              osv.affected[e].versions[j]) :
                    i \in DOMAIN purls_of(osv.affected[e].package[1]),
                    j \in DOMAIN osv.affected[e].versions}
           : e \in DOMAIN osv.affected}

InPurlTables(t, purl) ==
    /\ purl \in t.qualified_purl
    /\ to_version(purl) \in t.versioned_purl
    /\ to_base(purl) \in t.base_purl

\* C10 as stated: after a committed load of any document, every versioned
\* candidate is in the PURL tables.
C10_Original ==
    LoadCommitted => \A purl \in VersionedCandidates(doc) : InPurlTables(db, purl)

\* C10, amended: after a committed load of a document that has at least one
\* CVE alias, every versioned candidate is in the PURL tables.
C10_VersionedPurlsOfCveDocuments ==
    (LoadCommitted /\ cve_ids(doc) # <<>>) =>
        \A purl \in VersionedCandidates(doc) : InPurlTables(db, purl)

\* a committed load of a document with a CVE alias, an entry without a package
\* and an entry with two candidates and three versions
C10_Witness ==
    /\ LoadCommitted
    /\ cve_ids(doc) # <<>>
    /\ Len(doc.affected) = 2
    /\ Cardinality(VersionedCandidates(doc)) = 6
    /\ \A purl \in VersionedCandidates(doc) : purl \in db.qualified_purl

(***************************************************************************)
(* Range translation                                                       *)
(***************************************************************************)
Translated == range_out # <<>>

\* the scheme the dispatch table names for the input, if any
TableScheme ==
    {t[3] : t \in {u \in DispatchTable : u[1] = range_in[1].range_type
                                          /\ u[2] = range_in[1].ecosystem}}

\* the version of the first event of one of the kinds, if any
FirstOf(events, kinds) ==
    LET at == {i \in DOMAIN events : events[i].kind \in kinds}
    IN  IF at = {} THEN <<>>
        ELSE LET i == CHOOSE i \in at : \A j \in at : i <= j
             IN  <<events[i]>>

\* the rows of the table of the range translation; fixedAlone: whether an end
\* Fixed(v) without a start has the fixed row
TableRows(purl, events, scheme, fixedAlone) ==
    LET s == FirstOf(events, {"Introduced"})
        e == FirstOf(events, {"Fixed", "LastAffected"})
        low == IF s = <<>> THEN Unbounded ELSE Inclusive(s[1].version)
        high == IF e = <<>> THEN Unbounded
                ELSE IF e[1].kind = "Fixed" THEN Exclusive(e[1].version)
                ELSE Inclusive(e[1].version)
        row(status, spec) ==
            [purl |-> purl, status |-> status, scheme |-> scheme, spec |-> spec]
    IN  (IF s = <<>> /\ e = <<>> THEN <<>> ELSE <<row("affected", Range(low, high))>>)
        \o (IF e # <<>> /\ e[1].kind = "Fixed" /\ (s # <<>> \/ fixedAlone)
                THEN <<row("fixed", Exact(e[1].version))>>
                ELSE <<>>)

\* C7 as stated: the rows of a range with a scheme are the rows of the table,
\* where an end Fixed(v) without a start has the affected row only.
C7_Original ==
    Translated =>
        \A scheme \in TableScheme :
            range_out[1] = TableRows(RangePurl, range_in[1].events, scheme, FALSE)

\* C7, amended: the rows of a range with a scheme are the rows of the table,
\* with (None, (v, false)) -> affected Range(Unbounded, Excl v) plus fixed
\* Exact(v): the fixed row is emitted whenever the end is Fixed(v).
C7_RangeRows ==
    Translated =>
        \A scheme \in TableScheme :
            range_out[1] = TableRows(RangePurl, range_in[1].events, scheme, TRUE)

\* a Maven range that starts with Fixed and has no Introduced, translated to
\* the affected row and the fixed row
C7_Witness ==
    /\ Translated
    /\ range_in[1].range_type = "Ecosystem"
    /\ range_in[1].ecosystem = "Maven"
    /\ range_in[1].events = <<Fixed("1"), LastAffected("2")>>
    /\ Len(range_out[1]) = 2
    /\ range_out[1][2].status = "fixed"

\* C8: the rows of a range are those of create_package_status in the scheme
\* the dispatch table names for (range type, ecosystem), and those of the
\* enumerated-versions fallback when the table names none.
C8_SchemeDispatch ==
    Translated =>
        LET in == range_in[1]
        IN  IF TableScheme # {}
                THEN \A scheme \in TableScheme :
                        /\ range_out[1] =
                               create_package_status(RangePurl, in.events, scheme)
                        /\ \A i \in DOMAIN range_out[1] :
                               range_out[1][i].scheme = scheme
                ELSE /\ range_out[1] =
                            create_package_status_versions(RangePurl, in.events,
                                                           in.versions)
                     /\ \A i \in DOMAIN range_out[1] :
                            range_out[1][i].scheme = "Generic"

\* an Ecosystem range of a Python package translated to rows in scheme Python
C8_Witness ==
    /\ Translated
    /\ range_in[1].range_type = "Ecosystem"
    /\ range_in[1].ecosystem = "Python"
    /\ range_out[1] # <<>>
    /\ range_out[1][1].scheme = "Python"

\* the rows of the enumerated-versions fallback as C9 states them: the run
\* of versions of an Introduced up to the next Fixed or LastAffected as
\* affected rows, and a fixed row for a Fixed event only
RECURSIVE StatedFallbackRows(_, _, _, _)
StatedFallbackRows(purl, events, start, versions) ==
    LET run(end) ==
            IF start = <<>> THEN <<>>
            ELSE LET matched == match_versions(versions, start[1], end)
                 IN  [i \in DOMAIN matched |->
                        [purl |-> purl, status |-> "affected", scheme |-> "Generic",
                         spec |-> Exact(matched[i])]]
    IN  IF events = <<>> THEN run(<<>>)
        ELSE IF Head(events).kind = "Introduced"
            THEN StatedFallbackRows(purl, Tail(events), <<Head(events).version>>,
                                    versions)
        ELSE IF Head(events).kind = "Fixed"
            THEN run(<<Head(events).version>>)
                 \o <<[purl |-> purl, status |-> "fixed", scheme |-> "Generic",
                       spec |-> Exact(Head(events).version)]>>
                 \o StatedFallbackRows(purl, Tail(events), <<>>, versions)
        ELSE IF Head(events).kind = "LastAffected"
            THEN run(<<Head(events).version>>)
                 \o StatedFallbackRows(purl, Tail(events), <<>>, versions)
        ELSE StatedFallbackRows(purl, Tail(events), start, versions)

\* C9: the rows of a range without a scheme are the affected rows of each run
\* and a fixed row exactly for each Fixed event; LastAffected emits no fixed
\* row.
C9_FallbackRows ==
    (Translated /\ TableScheme = {}) =>
        range_out[1] = StatedFallbackRows(RangePurl, range_in[1].events, <<>>,
                                          range_in[1].versions)

(***************************************************************************)
(* Order of the creator flush and the status rows                          *)
(***************************************************************************)
\* C11: every package status row an ingest writes references a PURL that is
\* in the PURL tables of the transaction at the moment the row is inserted:
\* the creator is flushed before the rows that reference its PURLs.
C11_CreateBeforeReference ==
    [][\A r \in tx'.package_status \ tx.package_status :
            InPurlTables(tx, r.purl)]_vars

(***************************************************************************)
(* Concurrent ingests that flush their PURL creators                       *)
(*                                                                         *)
(* Each ingest runs in its own transaction: it adds purls to its creator,  *)
(* flushes the creator (one INSERT .. ON CONFLICT DO NOTHING per level, in *)
(* the order base, versioned, qualified) and commits.  A row is            *)
(* [id, by]: the key of its level and the ingest that inserted it.         *)
(***************************************************************************)
CreatorPurls ==
    {Purl("a", <<"1">>, <<>>), Purl("a", <<"2">>, <<>>), Purl("b", <<"1">>, <<>>)}

\* the key of a purl at a level of the PURL tables
LevelKey(level, purl) ==
    CASE level = "base_purl" -> to_base(purl)
      [] level = "versioned_purl" -> to_version(purl)
      [] level = "qualified_purl" -> purl

\* the rows an ingest sees: the committed ones and its own
Visible(i, level) == purl_db[level] \cup purl_tx[i][level]

\* the uncommitted rows of the other ingests
HeldByOthers(i, level) == UNION {purl_tx[j][level] : j \in Ingests \ {i}}

\* INSERT .. ON CONFLICT DO NOTHING waits for the transaction that holds an
\* uncommitted row of one of its keys
Waits(i, level) ==
    \E p \in ingest_purls[i] : \E r \in HeldByOthers(i, level) :
        r.id = LevelKey(level, p)

\* the rows the statement inserts: one per key that has no visible row
OnConflictDoNothing(i, level) ==
    {[id |-> k, by |-> i] :
        k \in {LevelKey(level, p) : p \in ingest_purls[i]}
              \ {r.id : r \in Visible(i, level)}}

CreateLevels == <<"base_purl", "versioned_purl", "qualified_purl">>

\* begin, and the calls of purl_creator.add
IngestAdd(i, purls) ==
    /\ ingest_pc[i] = "idle"
    /\ ingest_pc' = [ingest_pc EXCEPT ![i] = "create1"]
    /\ ingest_purls' = [ingest_purls EXCEPT ![i] = purls]
    /\ UNCHANGED <<outsideCreators, purl_db, purl_tx>>

CreateStep(i) ==
    CASE ingest_pc[i] = "create1" -> 1
      [] ingest_pc[i] = "create2" -> 2
      [] ingest_pc[i] = "create3" -> 3
      [] OTHER -> 0

\* the flush left out: the ingest goes on to its commit with nothing inserted
IngestCreateUnflushed(i) ==
    /\ CreateStep(i) > 0
    /\ ingest_pc' = [ingest_pc EXCEPT ![i] = "commit"]
    /\ UNCHANGED <<outsideCreators, purl_db, purl_tx, ingest_purls>>

\* purl_creator.create(&tx), one level at a time
IngestCreate(i) ==
    /\ CreateStep(i) > 0
    /\ LET level == CreateLevels[CreateStep(i)]
       IN  /\ ~Waits(i, level)
           /\ purl_tx' = [purl_tx EXCEPT ![i][level] =
                              @ \cup OnConflictDoNothing(i, level)]
    /\ ingest_pc' = [ingest_pc EXCEPT ![i] =
                        <<"create2", "create3", "commit">>[CreateStep(i)]]
    /\ UNCHANGED <<outsideCreators, purl_db, ingest_purls>>

\* tx.commit()
IngestCommit(i) ==
    /\ ingest_pc[i] = "commit"
    /\ purl_db' = [level \in PurlLevels |-> purl_db[level] \cup purl_tx[i][level]]
    /\ purl_tx' = [purl_tx EXCEPT ![i] = EmptyPurlTables]
    /\ ingest_pc' = [ingest_pc EXCEPT ![i] = "done"]
    /\ UNCHANGED <<outsideCreators, ingest_purls>>

\* an await of the ingest returns an error: the transaction is dropped
IngestFail(i) ==
    /\ ingest_pc[i] \in {"create1", "create2", "create3", "commit"}
    /\ purl_tx' = [purl_tx EXCEPT ![i] = EmptyPurlTables]
    /\ ingest_pc' = [ingest_pc EXCEPT ![i] = "failed"]
    /\ UNCHANGED <<outsideCreators, purl_db, ingest_purls>>

NextCreators ==
    \E i \in Ingests :
        \/ \E purls \in (SUBSET CreatorPurls) \ {{}} : IngestAdd(i, purls)
        \/ IngestCreate(i)
        \/ IngestCommit(i)
        \/ IngestFail(i)

SpecCreators == Init /\ [][NextCreators]_vars

Flushed(i) == ingest_pc[i] \in {"commit", "done"}

Mutators ==
    {[op |-> "set", key |-> "x", value |-> "1"],
     [op |-> "set", key |-> "y", value |-> "2"],
     [op |-> "remove", key |-> "x", value |-> ""],
     [op |-> "replace", key |-> "z", value |-> "3"]}

\* mutator(labels)
Apply(mutator, labels) ==
    CASE mutator.op = "set" ->
            {l \in labels : l[1] # mutator.key} \cup {<<mutator.key, mutator.value>>}
      [] mutator.op = "remove" -> {l \in labels : l[1] # mutator.key}
      [] mutator.op = "replace" -> {<<mutator.key, mutator.value>>}

CallStart(c, id, mutator) ==
    /\ call_pc[c] = "idle"
    /\ call_pc' = [call_pc EXCEPT ![c] = "begin"]
    /\ call_args' = [call_args EXCEPT ![c] = [id |-> id, mutator |-> mutator]]
    /\ UNCHANGED <<outsideLabels, label_db, label_init, label_lock, call_row,
                   call_tx, call_res>>

\* self.db.begin()
LabelsBegin(c) ==
    /\ call_pc[c] = "begin"
    /\ call_pc' = [call_pc EXCEPT ![c] = "select"]
    /\ UNCHANGED <<outsideLabels, label_db, label_init, label_lock, call_args,
                   call_row, call_tx, call_res, purl_in, purl_out, query_in, query_out>>

\* the select without FOR UPDATE: it reads the committed row at once
LabelsSelectUnlocked(c) ==
    /\ call_pc[c] = "select"
    /\ LET id == call_args[c].id
       IN  IF label_db[id] = <<>>
               THEN /\ call_res' = [call_res EXCEPT ![c] = <<[kind |-> "Ok", value |-> <<>>]>>]
                    /\ call_pc' = [call_pc EXCEPT ![c] = "done"]
                    /\ UNCHANGED call_row
               ELSE /\ call_row' = [call_row EXCEPT ![c] = label_db[id]]
                    /\ call_pc' = [call_pc EXCEPT ![c] = "update"]
                    /\ UNCHANGED call_res
    /\ UNCHANGED <<outsideLabels, label_db, label_init, label_lock, call_args, call_tx>>

\* SELECT .. FOR UPDATE, one(&tx): waits for the row lock, then reads the
\* committed row; no row: return Ok(None), dropping the transaction
LabelsSelect(c) ==
    /\ call_pc[c] = "select"
    /\ LET id == call_args[c].id
       IN  IF label_db[id] = <<>>
               THEN /\ call_res' = [call_res EXCEPT ![c] = <<[kind |-> "Ok", value |-> <<>>]>>]
                    /\ call_pc' = [call_pc EXCEPT ![c] = "done"]
                    /\ UNCHANGED <<call_row, label_lock>>
               ELSE /\ label_lock[id] = 0
                    /\ label_lock' = [label_lock EXCEPT ![id] = c]
                    /\ call_row' = [call_row EXCEPT ![c] = label_db[id]]
                    /\ call_pc' = [call_pc EXCEPT ![c] = "update"]
                    /\ UNCHANGED call_res
    /\ UNCHANGED <<outsideLabels, label_db, label_init, call_args, call_tx>>

\* the row written back with the labels it had
LabelsUpdateUnmutated(c) ==
    /\ call_pc[c] = "update"
    /\ call_tx' = [call_tx EXCEPT ![c] = call_row[c]]
    /\ call_pc' = [call_pc EXCEPT ![c] = "commit"]
    /\ UNCHANGED <<outsideLabels, label_db, label_init, label_lock, call_args,
                   call_row, call_res>>

\* result.labels = Set(mutator(labels)); result.update(&tx)
LabelsUpdate(c) ==
    /\ call_pc[c] = "update"
    /\ call_tx' = [call_tx EXCEPT ![c] = <<Apply(call_args[c].mutator, call_row[c][1])>>]
    /\ call_pc' = [call_pc EXCEPT ![c] = "commit"]
    /\ UNCHANGED <<outsideLabels, label_db, label_init, label_lock, call_args,
                   call_row, call_res>>

\* the row locks a call holds are released when its transaction ends
Released(c) == [id \in LabelIds |-> IF label_lock[id] = c THEN 0 ELSE label_lock[id]]

\* tx.commit(); Ok(Some(()))
LabelsCommit(c) ==
    /\ call_pc[c] = "commit"
    /\ label_db' = [label_db EXCEPT ![call_args[c].id] = call_tx[c]]
    /\ label_lock' = Released(c)
    /\ call_res' = [call_res EXCEPT ![c] = <<[kind |-> "Ok", value |-> <<"()">>]>>]
    /\ call_pc' = [call_pc EXCEPT ![c] = "done"]
    /\ UNCHANGED <<outsideLabels, label_init, call_args, call_row, call_tx>>

\* an await returns an error: the transaction is dropped
LabelsFail(c) ==
    /\ call_pc[c] \in {"begin", "select", "update", "commit"}
    /\ label_lock' = Released(c)
    /\ call_res' = [call_res EXCEPT ![c] = <<[kind |-> "Err", value |-> <<>>]>>]
    /\ call_pc' = [call_pc EXCEPT ![c] = "done"]
    /\ UNCHANGED <<outsideLabels, label_db, label_init, call_args, call_row, call_tx>>

InitLabels ==
    /\ InitRequests
    /\ IdleRange
    /\ IdlePurls
    /\ IdleQuery
    /\ IdleOthers
    /\ label_db \in LabelTables
    /\ label_init = label_db
    /\ IdleCalls

NextLabels ==
    \E c \in Calls :
        \/ \E id \in LabelIds, mutator \in Mutators : CallStart(c, id, mutator)
        \/ LabelsBegin(c)
        \/ LabelsSelect(c)
        \/ LabelsUpdate(c)
        \/ LabelsCommit(c)
        \/ LabelsFail(c)

SpecLabels == InitLabels /\ [][NextLabels]_vars

ReturnedNone(c) == call_res[c] = <<[kind |-> "Ok", value |-> <<>>]>>
ReturnedSome(c) == call_res[c] = <<[kind |-> "Ok", value |-> <<"()">>]>>

\* C13: the select of a call whose id matches no row ends the call with
\* Ok(None) and nothing written; a call returns Ok(None) only for such an id;
\* and a call that returns Ok(Some) has committed mutator(labels it read) as
\* the labels of its row.
C13_UpdateLabels ==
    /\ [](\A c \in Calls :
            /\ ReturnedNone(c) =>
                  (label_db[call_args[c].id] = <<>> /\ call_tx[c] = <<>>)
            /\ ReturnedSome(c) =>
                  (call_row[c] # <<>>
                   /\ call_tx[c] = <<Apply(call_args[c].mutator, call_row[c][1])>>))
    /\ [][\A c \in Calls :
            /\ (call_pc[c] = "select" /\ call_pc'[c] # "select"
                /\ label_db[call_args[c].id] = <<>>
                /\ call_res'[c][1].kind = "Ok") =>
                    (ReturnedNone(c)' /\ label_db' = label_db)
            /\ (~ReturnedSome(c) /\ ReturnedSome(c)') =>
                    label_db'[call_args[c].id] = call_tx[c]]_vars

\* one call returned Ok(None) for the id without a row and another returned
\* Ok(Some) after it changed the labels of the row
C13_Witness ==
    /\ \E c \in Calls : ReturnedNone(c) /\ call_args[c].id = 2
    /\ \E c \in Calls : ReturnedSome(c) /\ label_db[1] # label_init[1]


\* the calls that committed an update of the row id
Committed(id) == {c \in Calls : ReturnedSome(c) /\ call_args[c].id = id}

\* the labels that applying the mutators of the calls S one after another, in
\* some order, gives
RECURSIVE Serial(_, _)
Serial(labels, S) ==
    IF S = {} THEN {labels}
    ELSE UNION {Serial(Apply(call_args[c].mutator, labels), S \ {c}) : c \in S}

\* C14: whatever the interleaving of the calls, the commit of a call stores
\* its mutator applied to the labels committed just before it, and the
\* committed labels of a row are those of applying the mutators of the calls
\* that committed, one after another in some order.
C14_NoLostUpdate ==
    /\ [](\A id \in LabelIds : label_db[id] # <<>> =>
            label_db[id][1] \in Serial(label_init[id][1], Committed(id)))
    /\ [][\A c \in Calls : (~ReturnedSome(c) /\ ReturnedSome(c)') =>
            label_db'[call_args[c].id] =
                <<Apply(call_args[c].mutator, label_db[call_args[c].id][1])>>]_vars

\* two calls on the same row committed and the labels hold both updates
C14_Witness ==
    /\ Committed(1) = {1, 2}
    /\ label_init[1] = <<{}>>
    /\ label_db[1] = <<{<<"x", "1">>, <<"y", "2">>}>>

(***************************************************************************)
(* Purl: construction from a PackageUrl and the three-level UUID           *)
(*                                                                         *)
(* A Uuid::new_v5(namespace, name) is the pair <<namespace, name>>: two    *)
(* version 5 UUIDs are equal exactly when they were derived from the same  *)
(* namespace and name.                                                     *)
(***************************************************************************)
NAMESPACE == <<"3738b43d-fd03-4a9d-849c-489bec610f06">>

new_v5(namespace, name) == <<namespace, name>>

\* the qualifier keys, in the order of String's Ord
QualifierKeys == <<"arch", "tags">>

KeyRank(k) == CHOOSE i \in DOMAIN QualifierKeys : QualifierKeys[i] = k

\* BTreeMap::insert: the entry replaces one of the same key and sits in key order
BTreeInsert(map, entry) ==
    LET others == SelectSeq(map, LAMBDA e : e[1] # entry[1])
        before == SelectSeq(others, LAMBDA e : KeyRank(e[1]) < KeyRank(entry[1]))
        after == SelectSeq(others, LAMBDA e : KeyRank(e[1]) > KeyRank(entry[1]))
    IN  before \o <<entry>> \o after

\* the entries kept in the order they were inserted in
collect_in_insertion_order(pairs) == pairs

\* .collect() into the BTreeMap
RECURSIVE collect(_)
collect(pairs) ==
    IF pairs = <<>> THEN <<>>
    ELSE BTreeInsert(collect(SubSeq(pairs, 1, Len(pairs) - 1)), pairs[Len(pairs)])

\* impl From<PackageUrl> for Purl
PurlFrom(value) ==
    [ty |-> value.ty, namespace |-> value.namespace, name |-> value.name,
     version |-> value.version, qualifiers |-> collect(value.qualifiers)]

package_uuid(purl) ==
    LET typed == new_v5(NAMESPACE, purl.ty)
        spaced == IF purl.namespace # <<>> THEN new_v5(typed, purl.namespace[1])
                  ELSE typed
    IN  new_v5(spaced, purl.name)

then_version_uuid(purl, package) ==
    new_v5(package, IF purl.version # <<>> THEN purl.version[1] ELSE "")

version_uuid(purl) == then_version_uuid(purl, package_uuid(purl))

RECURSIVE qualifiers_fold(_, _)
qualifiers_fold(qualifiers, uuid) ==
    IF qualifiers = <<>> THEN uuid
    ELSE qualifiers_fold(Tail(qualifiers),
                         new_v5(new_v5(uuid, Head(qualifiers)[1]), Head(qualifiers)[2]))

then_qualifier_uuid(purl, version) == qualifiers_fold(purl.qualifiers, version)

qualifier_uuid(purl) == then_qualifier_uuid(purl, version_uuid(purl))

uuids(purl) ==
    LET package == package_uuid(purl)
        version == then_version_uuid(purl, package)
        qualified == then_qualifier_uuid(purl, version)
    IN  <<package, version, qualified>>

\* the qualifiers of a PackageUrl: a HashMap, iterated in any order
QualifierLists ==
    {<<>>}
    \cup {<< <<k, v>> >> : k \in {"arch", "tags"}, v \in {"x", "y"}}
    \cup {<< <<k[1], v1>>, <<k[2], v2>> >> :
            k \in {<<"arch", "tags">>, <<"tags", "arch">>},
            v1 \in {"x", "y"}, v2 \in {"x", "y"}}

PackageUrls ==
    [ty : {"npm", "rpm"}, namespace : {<<>>, <<"redhat">>}, name : {"a", "b"},
     version : {<<>>, <<"1">>}, qualifiers : QualifierLists]

InitPurl ==
    /\ InitRequests
    /\ IdleRange
    /\ IdleLabels
    /\ IdleQuery
    /\ IdleOthers
    /\ purl_in \in {<<[a |-> a, b |-> b]>> : a \in PackageUrls, b \in PackageUrls}
    /\ purl_out = <<>>

\* two PackageUrls made into Purls
PurlApply ==
    /\ purl_in # <<>>
    /\ purl_out = <<>>
    /\ purl_out' = <<[a |-> PurlFrom(purl_in[1].a), b |-> PurlFrom(purl_in[1].b)]>>
    /\ UNCHANGED <<outsidePurls, purl_in>>

NextPurl == PurlApply

SpecPurl == InitPurl /\ [][NextPurl]_vars

Entries(qualifiers) == {qualifiers[i] : i \in DOMAIN qualifiers}

\* C15: two Purls made from the same type, namespace and name have the same
\* package_uuid; with the same version too, the same version_uuid; and with
\* the same set of qualifiers too, in whatever order they were given, the
\* same qualifier_uuid, and they are equal.
C15_SameUuids ==
    purl_out # <<>> =>
        LET in == purl_in[1]
            a == purl_out[1].a
            b == purl_out[1].b
            samePackage == /\ in.a.ty = in.b.ty
                           /\ in.a.namespace = in.b.namespace
                           /\ in.a.name = in.b.name
            sameVersion == samePackage /\ in.a.version = in.b.version
            sameQualifiers == /\ sameVersion
                              /\ Entries(in.a.qualifiers) = Entries(in.b.qualifiers)
        IN  /\ samePackage => package_uuid(a) = package_uuid(b)
            /\ sameVersion => version_uuid(a) = version_uuid(b)
            /\ sameQualifiers =>
                  (qualifier_uuid(a) = qualifier_uuid(b) /\ uuids(a) = uuids(b) /\ a = b)

\* the purls of the test purl_cmp: the same two qualifiers in the two orders
C15_Witness ==
    /\ purl_out # <<>>
    /\ purl_in[1].a = [ty |-> "rpm", namespace |-> <<"redhat">>, name |-> "a",
                       version |-> <<"1">>,
                       qualifiers |-> << <<"arch", "x">>, <<"tags", "y">> >>]
    /\ purl_in[1].b = [purl_in[1].a EXCEPT
                          !.qualifiers = << <<"tags", "y">>, <<"arch", "x">> >>]
    /\ qualifier_uuid(purl_out[1].a) = qualifier_uuid(purl_out[1].b)
    /\ qualifier_uuid(purl_out[1].a) # version_uuid(purl_out[1].a)

(***************************************************************************)
(* Purl as a string: Display and FromStr                                   *)
(*                                                                         *)
(* A string is a sequence of tokens.  A token is a separator of the PURL   *)
(* syntax ("pkg:", "/", "@", "?", "=", "&", "#"), a character of a         *)
(* component ("@", "#", "%" and "/" among them), a percent-encoded         *)
(* character ("%40") or a run of characters that are written as they are   *)
(* ("npm", "arch", "40").                                                  *)
(***************************************************************************)
\* percent-encoding of one character of a component
EncodeChar(c) ==
    CASE c = "@" -> "%40"
      [] c = "#" -> "%23"
      [] c = "%" -> "%25"
      [] c = "?" -> "%3F"
      [] c = "=" -> "%3D"
      [] OTHER -> c

DecodeChar(c) ==
    CASE c = "%40" -> "@"
      [] c = "%23" -> "#"
      [] c = "%25" -> "%"
      [] c = "%3F" -> "?"
      [] c = "%3D" -> "="
      [] OTHER -> c

Encode(text) == [i \in DOMAIN text |-> EncodeChar(text[i])]

Decode(text) == [i \in DOMAIN text |-> DecodeChar(text[i])]

\* position of the first (last) token c of s, 0 if there is none
Find(s, c) ==
    LET at == {i \in DOMAIN s : s[i] = c}
    IN  IF at = {} THEN 0 ELSE CHOOSE i \in at : \A j \in at : i <= j

RFind(s, c) ==
    LET at == {i \in DOMAIN s : s[i] = c}
    IN  IF at = {} THEN 0 ELSE CHOOSE i \in at : \A j \in at : j <= i

\* s.split(c)
RECURSIVE Split(_, _)
Split(s, c) ==
    IF Find(s, c) = 0 THEN <<s>>
    ELSE <<SubSeq(s, 1, Find(s, c) - 1)>>
         \o Split(SubSeq(s, Find(s, c) + 1, Len(s)), c)

\* the components of a namespace, each percent-encoded and followed by "/"
RECURSIVE EncodeNamespace(_)
EncodeNamespace(components) ==
    IF components = <<>> THEN <<>>
    ELSE Encode(Head(components)) \o <<"/">> \o EncodeNamespace(Tail(components))

\* key=value pairs joined by "&", the values percent-encoded
RECURSIVE EncodeQualifiers(_)
EncodeQualifiers(qualifiers) ==
    IF qualifiers = <<>> THEN <<>>
    ELSE <<Head(qualifiers)[1], "=">> \o Encode(Head(qualifiers)[2])
         \o (IF Tail(qualifiers) = <<>> THEN <<>> ELSE <<"&">>)
         \o EncodeQualifiers(Tail(qualifiers))

\* the types PackageUrl::new accepts
ValidTypes == {"npm", "rpm"}

\* the keys add_qualifier accepts
ValidKeys == {QualifierKeys[i] : i \in DOMAIN QualifierKeys}

\* a PackageUrl written without its version
PurlDisplayWithoutVersion(purl) ==
    IF purl.ty \notin ValidTypes
       \/ \E i \in DOMAIN purl.qualifiers : purl.qualifiers[i][1] \notin ValidKeys
        THEN <<>>
        ELSE << <<"pkg:", purl.ty, "/">>
                \o (IF purl.namespace # <<>>
                        THEN EncodeNamespace(Split(purl.namespace[1], "/"))
                        ELSE <<>>)
                \o Encode(purl.name)
                \o (IF purl.qualifiers # <<>>
                        THEN <<"?">> \o EncodeQualifiers(collect(purl.qualifiers))
                        ELSE <<>>) >>

\* impl Display for Purl: Option<string>, None when fmt returns fmt::Error.
\* The PackageUrl built from the Purl is written as pkg:type/namespace/name
\* @version?qualifiers, the qualifiers in key order.
PurlDisplay(purl) ==
    IF purl.ty \notin ValidTypes
       \/ \E i \in DOMAIN purl.qualifiers : purl.qualifiers[i][1] \notin ValidKeys
        THEN <<>>
        ELSE << <<"pkg:", purl.ty, "/">>
                \o (IF purl.namespace # <<>>
                        THEN EncodeNamespace(Split(purl.namespace[1], "/"))
                        ELSE <<>>)
                \o Encode(purl.name)
                \o (IF purl.version # <<>>
                        THEN <<"@">> \o Encode(purl.version[1])
                        ELSE <<>>)
                \o (IF purl.qualifiers # <<>>
                        THEN <<"?">> \o EncodeQualifiers(collect(purl.qualifiers))
                        ELSE <<>>) >>

\* the qualifiers of a string: key=value pairs, those of an empty value left out
RECURSIVE ParseQualifiers(_)
ParseQualifiers(pairs) ==
    IF pairs = <<>> THEN <<>>
    ELSE LET pair == Head(pairs)
             eq == Find(pair, "=")
             value == Decode(SubSeq(pair, eq + 1, Len(pair)))
         IN  (IF eq = 2 /\ value # <<>> THEN << <<pair[1], value>> >> ELSE <<>>)
             \o ParseQualifiers(Tail(pairs))

\* the components of a namespace decoded and joined by "/"
RECURSIVE JoinNamespace(_)
JoinNamespace(components) ==
    IF components = <<>> THEN <<>>
    ELSE Decode(Head(components))
         \o (IF Tail(components) = <<>> THEN <<>> ELSE <<"/">>)
         \o JoinNamespace(Tail(components))

\* PackageUrl::from_str: Option<PackageUrl>, None for an error.  The string is
\* taken apart from the right: subpath, qualifiers, version; then the type,
\* the name and what is left as the namespace.
ParsePackageUrl(s) ==
    IF s = <<>> \/ Head(s) # "pkg:" THEN <<>>
    ELSE
    LET s1 == Tail(s)
        s2 == IF Find(s1, "#") = 0 THEN s1 ELSE SubSeq(s1, 1, Find(s1, "#") - 1)
        q == Find(s2, "?")
        s3 == IF q = 0 THEN s2 ELSE SubSeq(s2, 1, q - 1)
        pairs == IF q = 0 THEN <<>>
                 ELSE SelectSeq(Split(SubSeq(s2, q + 1, Len(s2)), "&"),
                                LAMBDA pair : pair # <<>>)
        v == RFind(s3, "@")
        s4 == IF v = 0 THEN s3 ELSE SubSeq(s3, 1, v - 1)
        version == IF v = 0 THEN <<>> ELSE <<Decode(SubSeq(s3, v + 1, Len(s3)))>>
        t == Find(s4, "/")
        rest == SelectSeq(Split(SubSeq(s4, t + 1, Len(s4)), "/"),
                          LAMBDA component : component # <<>>)
    IN  IF t # 2 \/ s4[1] \notin ValidTypes \/ rest = <<>> THEN <<>>
        ELSE <<[ty |-> s4[1],
                namespace |-> IF Len(rest) = 1 THEN <<>>
                              ELSE <<JoinNamespace(SubSeq(rest, 1, Len(rest) - 1))>>,
                name |-> Decode(rest[Len(rest)]),
                version |-> version,
                qualifiers |-> ParseQualifiers(pairs)]>>

\* impl FromStr for Purl
PurlParse(s) ==
    IF ParsePackageUrl(s) = <<>> THEN <<>>
    ELSE <<PurlFrom(ParsePackageUrl(s)[1])>>

\* the components of the PackageUrls the Purls are made from
Names == {<<"a">>, <<"a", "@", "b">>, <<"%", "40">>, <<"#">>, <<"?", "=">>}

Namespaces == {<<>>, << <<"@", "a">> >>, << <<"a", "/", "b">> >>}

Versions == {<<>>, << <<"1">> >>, << <<"1", "-", "#", "6">> >>, << <<"a", ":", "@">> >>}

QualifierValues == {<<"x">>, <<"a", "/", "b">>, <<"@", "=">>}

TextQualifierLists ==
    {<<>>}
    \cup {<< <<k, v>> >> : k \in ValidKeys, v \in QualifierValues}
    \cup {<< <<k[1], v1>>, <<k[2], v2>> >> :
            k \in {<<"arch", "tags">>, <<"tags", "arch">>},
            v1 \in QualifierValues, v2 \in QualifierValues}

TextPackageUrls ==
    [ty : ValidTypes, namespace : Namespaces, name : Names, version : Versions,
     qualifiers : TextQualifierLists]

InitPurlString ==
    /\ InitRequests
    /\ IdleRange
    /\ IdleLabels
    /\ IdleQuery
    /\ IdleOthers
    /\ purl_in \in {<<PurlFrom(value)>> : value \in TextPackageUrls}
    /\ purl_out = <<>>

\* p.to_string()
PurlToString ==
    /\ purl_in # <<>>
    /\ purl_out = <<>>
    /\ purl_out' = <<[string |-> PurlDisplay(purl_in[1]), parsed |-> <<>>]>>
    /\ UNCHANGED <<outsidePurls, purl_in>>

\* Purl::from_str(&string)
PurlFromString ==
    /\ purl_out # <<>>
    /\ purl_out[1].string # <<>>
    /\ purl_out[1].parsed = <<>>
    /\ purl_out' = <<[purl_out[1] EXCEPT
                        !.parsed = <<PurlParse(purl_out[1].string[1])>>]>>
    /\ UNCHANGED <<outsidePurls, purl_in>>

NextPurlString == PurlToString \/ PurlFromString

SpecPurlString == InitPurlString /\ [][NextPurlString]_vars

\* the keys of the qualifiers of a string, in the order they are written in
KeysWritten(s) ==
    LET q == Find(s, "?")
    IN  IF q = 0 THEN <<>>
        ELSE SelectSeq(SubSeq(s, q + 1, Len(s)), LAMBDA c : c \in ValidKeys)

Column(name) == [table |-> <<>>, name |-> name]

TableColumn(table, name) == [table |-> <<table>>, name |-> name]

\* Expr::col(column_ref)
col(column_ref) == column_ref.table \o <<column_ref.name>>

\* expr.cast_json_field(field)
cast_json_field(expr, field) == expr \o <<"->>", field>>

\* str::to_ascii_lowercase over the names that are used
Lower(s) ==
    CASE s = "TITLE" -> "title"
      [] s = "Purl" -> "purl"
      [] s = "ADVISORY" -> "advisory"
      [] OTHER -> s

eq_ignore_ascii_case(a, b) == Lower(a) = Lower(b)

\* The keys of the two BTreeMaps, in the order of &str
KeyOrder == <<"kind", "name", "pearl", "title", "type", "version">>

\* BTreeMap::new(), insert, get (an Option) and iter (in key order)
EmptyMap == <<>>

MapInsert(map, name, value) ==
    [k \in DOMAIN map \cup {name} |-> IF k = name THEN value ELSE map[k]]

MapGet(map, name) == IF name \in DOMAIN map THEN <<map[name]>> ELSE <<>>

MapIter(map) ==
    LET keys == SelectSeq(KeyOrder, LAMBDA k : k \in DOMAIN map)
    IN  [i \in 1..Len(keys) |-> <<keys[i], map[keys[i]]>>]

\* The columns of the entity `advisory` of the module's tests
AdvisoryColumns ==
    << [ref |-> TableColumn("advisory", "id"), ty |-> "Integer"],
       [ref |-> TableColumn("advisory", "location"), ty |-> "String"],
       [ref |-> TableColumn("advisory", "title"), ty |-> "String"],
       [ref |-> TableColumn("advisory", "score"), ty |-> "Double"],
       [ref |-> TableColumn("advisory", "purl"), ty |-> "Json"] >>

\* Columns::from_entity::<E>()
from_entity(E) ==
    [columns |-> E, translator |-> <<>>, json_keys |-> EmptyMap,
     exprs |-> EmptyMap]

\* columns.add_column(name, def)
add_column(self, name, ty) ==
    [self EXCEPT !.columns = Append(@, [ref |-> Column(name), ty |-> ty])]

\* columns.add_expr(name, expr, ty)
add_expr(self, name, expr, ty) ==
    [self EXCEPT !.exprs = MapInsert(@, name, [expr |-> expr, ty |-> ty])]

\* columns.translator(f): f is known by its name
translator(self, f) == [self EXCEPT !.translator = <<f>>]

\* columns.alias(from, to)
alias(self, from, to) ==
    [self EXCEPT !.columns =
        [i \in DOMAIN @ |->
            IF /\ @[i].ref.table # <<>>
               /\ eq_ignore_ascii_case(@[i].ref.table[1], from)
            THEN [@[i] EXCEPT !.ref = TableColumn(to, @.name)]
            ELSE @[i]]]

\* columns.json_keys(column, fields)
RECURSIVE json_keys_loop(_, _, _)
json_keys_loop(map, column, fields) ==
    IF fields = <<>> THEN map
    ELSE json_keys_loop(MapInsert(map, Head(fields), column), column,
                        Tail(fields))

json_keys(self, column, fields) ==
    [self EXCEPT !.json_keys = json_keys_loop(@, column, fields)]

\* ColumnType::String(_) | ColumnType::Text
StringTypes == {"String", "Text"}

\* ColumnType::Json | ColumnType::JsonBinary
JsonTypes == {"Json", "JsonBinary"}

\* columns.strings(): the string-ish expressions, in the order of the chain
strings_in_columns(self) ==
    LET real == SelectSeq(self.columns, LAMBDA c : c.ty \in StringTypes)
    IN  [i \in 1..Len(real) |-> col(real[i].ref)]

strings_in_exprs(self) ==
    LET added == SelectSeq(MapIter(self.exprs),
                           LAMBDA e : e[2].ty \in StringTypes)
    IN  [i \in 1..Len(added) |-> added[i][2].expr]

strings_in_json_keys(self) ==
    LET keys == MapIter(self.json_keys)
    IN  [i \in 1..Len(keys) |->
            cast_json_field(col(Column(keys[i][2])), keys[i][1])]

strings_without_exprs(self) ==
    strings_in_columns(self) \o strings_in_json_keys(self)

strings(self) ==
    strings_in_columns(self) \o strings_in_exprs(self)
        \o strings_in_json_keys(self)

\* Result<(Expr, ColumnType), Error>
FieldOk(expr, ty) == [ok |-> TRUE, expr |-> expr, ty |-> ty, error |-> <<>>]

SearchSyntax(message) ==
    [ok |-> FALSE, expr |-> <<>>, ty |-> "", error |-> <<"SearchSyntax">> \o message]

InvalidFieldName(field) == SearchSyntax(<<"Invalid field name", field>>)

\* name_match(tgt) and Iterator::find: the first column the name matches
name_match(tgt, column) == eq_ignore_ascii_case(column.ref.name, tgt)

find(columns, tgt) ==
    LET at == {i \in DOMAIN columns : name_match(tgt, columns[i])}
    IN  IF at = {} THEN <<>>
        ELSE <<columns[CHOOSE i \in at : \A j \in at : i <= j]>>

\* columns.for_field(field)
for_field_json_lenient(self, field) ==
    LET declared == MapGet(self.json_keys, field)
        json == SelectSeq(self.columns, LAMBDA c : c.ty \in JsonTypes)
        found == IF declared = <<>> THEN <<>> ELSE find(json, declared[1])
    IN  IF found = <<>> THEN FieldOk(col(Column(field)), "Text")
        ELSE FieldOk(cast_json_field(col(found[1].ref), field), found[1].ty)

for_field_json(self, field) ==
    LET declared == MapGet(self.json_keys, field)
        json == SelectSeq(self.columns, LAMBDA c : c.ty \in JsonTypes)
        found == IF declared = <<>> THEN <<>> ELSE find(json, declared[1])
    IN  IF found = <<>> THEN InvalidFieldName(field)
        ELSE FieldOk(cast_json_field(col(found[1].ref), field), found[1].ty)

for_field_real_first(self, field) ==
    LET real == find(self.columns, field)
        added == MapGet(self.exprs, field)
    IN  IF real # <<>> THEN FieldOk(col(real[1].ref), real[1].ty)
        ELSE IF added # <<>> THEN FieldOk(added[1].expr, added[1].ty)
        ELSE for_field_json(self, field)

for_field(self, field) ==
    LET added == MapGet(self.exprs, field)
        real == find(self.columns, field)
    IN  IF added # <<>> THEN FieldOk(added[1].expr, added[1].ty)
        ELSE IF real # <<>> THEN FieldOk(col(real[1].ref), real[1].ty)
        ELSE for_field_json(self, field)

\* The translator of tests::translation
severity_translator(f, op, v) ==
    LET fragment ==
            CASE f = "severity" /\ op = "=" /\ v = "low" ->
                    <<<<"score", ">=", "0", "&", "score", "<", "3">>>>
              [] f = "severity" /\ op = "=" /\ v = "medium" ->
                    <<<<"score", ">=", "3", "&", "score", "<", "6">>>>
              [] f = "severity" /\ op = "=" /\ v = "high" ->
                    <<<<"score", ">=", "6", "&", "score", "<", "10">>>>
              [] f = "severity" /\ op = ">" /\ v = "low" ->
                    <<<<"score", ">", "3">>>>
              [] f = "severity" /\ op = ">" /\ v = "medium" ->
                    <<<<"score", ">", "6">>>>
              [] f = "severity" /\ op = ">" /\ v = "high" ->
                    <<<<"score", ">", "10">>>>
              [] f = "severity" /\ op = "<" /\ v = "low" ->
                    <<<<"score", "<", "0">>>>
              [] f = "severity" /\ op = "<" /\ v = "medium" ->
                    <<<<"score", "<", "3">>>>
              [] f = "severity" /\ op = "<" /\ v = "high" ->
                    <<<<"score", "<", "6">>>>
              [] f = "painful" /\ op = "=" /\ v = "true" ->
                    <<<<"severity", ">", "high">>>>
              [] OTHER -> <<>>
    IN  IF fragment # <<>> THEN fragment
        ELSE IF f = "severity" /\ v = "" THEN <<<<"score", ":", op>>>>
        ELSE <<>>

\* A Translator is a function pointer: the call through it
call_translator(f, field, op, value) ==
    IF f = "severity_translator" THEN severity_translator(field, op, value)
    ELSE <<>>

\* columns.translate(field, op, value)
translate_nothing(self, field, op, value) == <<>>

translate(self, field, op, value) ==
    IF self.translator = <<>> THEN <<>>
    ELSE call_translator(self.translator[1], field, op, value)


\* ---------------------------------------------------------------------
\* The filter and sort compiler that uses the registry (query language
\* of the specification, sections 4.B and 4.C)
\* ---------------------------------------------------------------------

Operators == {"=", "!=", "~", "!~", ">", ">=", "<", "<="}

NumericTypes == {"Integer", "Double"}

\* The values that parse as a number
Numerics == {"0", "3", "6", "10", "42"}

\* The SQL operator an operator of the language is written as
SqlOperator(op) ==
    CASE op = "!=" -> <<"<>">>
      [] op = "~" -> <<"ILIKE">>
      [] op = "!~" -> <<"NOT", "ILIKE">>
      [] OTHER -> <<op>>

\* Result<Condition, Error>: the tokens of the condition, and whether it
\* is a single predicate (one that is not put in parentheses when joined)
Compiled(sql, atomic) ==
    [ok |-> TRUE, sql |-> sql, atomic |-> atomic, error |-> <<>>]

Failed(error) == [ok |-> FALSE, sql |-> <<>>, atomic |-> TRUE, error |-> error]

Parenthesised(compiled) ==
    IF compiled.atomic THEN compiled.sql
    ELSE <<"(">> \o compiled.sql \o <<")">>

RECURSIVE JoinSql(_, _)
JoinSql(results, word) ==
    IF Len(results) = 1 THEN Parenthesised(results[1])
    ELSE Parenthesised(results[1]) \o <<word>> \o JoinSql(Tail(results), word)

\* Condition::all() / Condition::any() over the results, or the first error
Join(results, word) ==
    LET failed == {i \in DOMAIN results : ~results[i].ok}
    IN  IF failed # {}
        THEN results[CHOOSE i \in failed : \A j \in failed : i <= j]
        ELSE IF results = <<>> THEN Compiled(<<>>, TRUE)
        ELSE IF Len(results) = 1 THEN results[1]
        ELSE Compiled(JoinSql(results, word), FALSE)

\* q(s): the constraints of a filter, `&` between them, `|` between the
\* values of one
Values(s) == SelectSeq(s, LAMBDA token : token # "|")

Constraint(s) ==
    IF Len(s) >= 3 /\ s[2] \in Operators
    THEN [field |-> <<s[1]>>, op |-> <<s[2]>>,
          values |-> Values(SubSeq(s, 3, Len(s)))]
    ELSE [field |-> <<>>, op |-> <<>>, values |-> Values(s)]

parse(s) ==
    IF s = <<>> THEN <<>>
    ELSE [i \in 1..Len(Split(s, "&")) |-> Constraint(Split(s, "&")[i])]

\* The predicate of `field op value` (rule 3 of the compilation rules)
simple_filter(self, field, op, value) ==
    LET resolved == for_field(self, field)
    IN  IF ~resolved.ok THEN Failed(resolved.error)
        ELSE IF op \in {"~", "!~"} /\ resolved.ty \in NumericTypes
        THEN Failed(<<"SearchSyntax", "Invalid operator", op>>)
        ELSE IF resolved.ty \in NumericTypes /\ value \notin Numerics
        THEN Failed(<<"SearchSyntax", "Invalid value", value>>)
        ELSE Compiled(resolved.expr \o SqlOperator(op) \o <<value>>, TRUE)

\* The free-text atom: OR over the string-ish expressions of the registry
free_text(self, value) ==
    Join([i \in 1..Len(strings(self)) |->
            Compiled(strings(self)[i] \o <<"ILIKE", value>>, TRUE)], "OR")

RECURSIVE filter_for(_, _)

\* One value of `field op v1|v2`: the translator's fragment compiled at
\* this position, or the predicate of the field
alternative(self, field, op, value) ==
    LET fragment == translate(self, field, op, value)
    IN  IF fragment # <<>> THEN filter_for(self, fragment[1])
        ELSE simple_filter(self, field, op, value)

constraint_filter(self, c) ==
    IF c.field = <<>>
    THEN Join([i \in 1..Len(c.values) |-> free_text(self, c.values[i])],
              "OR")
    ELSE Join([i \in 1..Len(c.values) |->
                    alternative(self, c.field[1], c.op[1], c.values[i])],
              IF c.op[1] \in {"!=", "!~"} THEN "AND" ELSE "OR")

filter_for(self, s) ==
    Join([i \in 1..Len(parse(s)) |-> constraint_filter(self, parse(s)[i])],
         "AND")

\* One clause `field[:asc|:desc]` of a sort
RECURSIVE sort_clause(_, _)
sort_clause(self, s) ==
    LET field == s[1]
        direction == IF Len(s) >= 3 THEN s[3] ELSE "asc"
        fragment == translate(self, field, direction, "")
        resolved == for_field(self, field)
    IN  IF fragment # <<>> THEN sort_clause(self, fragment[1])
        ELSE IF ~resolved.ok THEN Failed(resolved.error)
        ELSE IF direction \notin {"asc", "desc"}
        THEN Failed(<<"SearchSyntax", "Invalid sort direction", direction>>)
        ELSE Compiled(resolved.expr
                        \o <<IF direction = "asc" THEN "ASC" ELSE "DESC">>,
                      TRUE)

sort_for(self, s) ==
    IF s = <<>> THEN Compiled(<<>>, TRUE)
    ELSE Join([i \in 1..Len(Split(s, ",")) |->
                    sort_clause(self, Split(s, ",")[i])], ",")

\* select.filtering_with(query, columns): the WHERE and ORDER BY clauses
filtering_with(query, self) ==
    LET where == filter_for(self, query.q)
        order == sort_for(self, query.sort)
    IN  IF ~where.ok THEN [ok |-> FALSE, where |-> <<>>, order_by |-> <<>>,
                           error |-> where.error]
        ELSE IF ~order.ok THEN [ok |-> FALSE, where |-> <<>>,
                                order_by |-> <<>>, error |-> order.error]
        ELSE [ok |-> TRUE, where |-> where.sql, order_by |-> order.sql,
              error |-> <<>>]


\* ---------------------------------------------------------------------
\* The registries, queries and fields the calls are made with
\* ---------------------------------------------------------------------

get_purl == <<"get_purl", "(", "purl", ")">>

upper_title == <<"upper", "(", "title", ")">>

\* advisory::Entity.columns(), aliased, and with a synthetic column
Bases ==
    {from_entity(AdvisoryColumns),
     add_column(alias(from_entity(AdvisoryColumns), "ADVISORY", "foo"),
                "len", "Integer")}

WithTranslator(self) == {self, translator(self, "severity_translator")}

\* json_keys over the JSON column, over a key named as a real column,
\* over a column that is not JSON and over a column that is not there
WithJsonKeys(self) ==
    {self,
     json_keys(self, "purl", <<"name", "type", "version">>),
     json_keys(self, "Purl", <<"name", "title">>),
     json_keys(self, "title", <<"kind">>),
     json_keys(self, "meta", <<"kind">>)}

\* add_expr of a new name and of the name of a real column
WithExpr(self) ==
    {self,
     add_expr(self, "pearl", get_purl, "Text"),
     add_expr(self, "pearl", get_purl, "Integer"),
     add_expr(self, "title", upper_title, "Text")}

Registries ==
    UNION {UNION {UNION {WithExpr(j) : j \in WithJsonKeys(t)}
                    : t \in WithTranslator(b)} : b \in Bases}

Atoms ==
    {<<"severity", ">", "medium">>,
     <<"severity", "=", "low", "|", "high">>,
     <<"severity", "=", "low", "|", "bogus">>,
     <<"painful", "=", "true">>,
     <<"painful", "=", "false">>,
     <<"score", ">", "6">>,
     <<"score", ">", "x">>,
     <<"title", "=", "foo">>,
     <<"TITLE", "!=", "foo", "|", "bar">>,
     <<"name", "~", "log4j">>,
     <<"version", ">", "1.0">>,
     <<"missing", "=", "gone">>,
     <<"pearl", "=", "42">>,
     <<"kind", "=", "x">>,
     <<"len", ">", "10">>,
     <<"foo">>,
     <<"foo", "|", "bar">>}

SecondAtoms == {<<"score", ">", "6">>, <<"missing", "=", "gone">>, <<"foo">>}

Filters ==
    {<<>>} \cup Atoms \cup {a \o <<"&">> \o b : a \in Atoms, b \in SecondAtoms}

Sorts ==
    {<<>>,
     <<"severity", ":", "desc">>,
     <<"name">>,
     <<"nope">>,
     <<"title", ":", "asc", ",", "score", ":", "desc">>}

Fields ==
    {"title", "TITLE", "pearl", "name", "kind", "missing", "purl", "Purl",
     "severity", "len", "score"}

NoQuery == [q |-> <<>>, sort |-> <<>>]

QueryCalls ==
    {[call |-> "filtering_with", columns |-> r,
      query |-> [q |-> q, sort |-> s], field |-> ""]
        : r \in Registries, q \in Filters, s \in Sorts}
    \cup {[call |-> "for_field", columns |-> r, query |-> NoQuery,
           field |-> f] : r \in Registries, f \in Fields}

InitQuery ==
    /\ InitRequests
    /\ IdleRange
    /\ IdleLabels
    /\ IdlePurls
    /\ IdleOthers
    /\ query_in \in {<<c>> : c \in QueryCalls}
    /\ query_out = <<>>

\* select.filtering_with(query, columns)
QueryFilteringWith ==
    /\ query_in # <<>>
    /\ query_in[1].call = "filtering_with"
    /\ query_out = <<>>
    /\ query_out' = <<filtering_with(query_in[1].query, query_in[1].columns)>>
    /\ UNCHANGED <<outsideQuery, query_in>>

\* columns.for_field(field)
QueryForField ==
    /\ query_in # <<>>
    /\ query_in[1].call = "for_field"
    /\ query_out = <<>>
    /\ query_out' = <<for_field(query_in[1].columns, query_in[1].field)>>
    /\ UNCHANGED <<outsideQuery, query_in>>

NextQuery == QueryFilteringWith \/ QueryForField

SpecQuery == InitQuery /\ [][NextQuery]_vars

\* ---- helpers of the claims about the registry ----

Compiling == query_in # <<>> /\ query_in[1].call = "filtering_with"

CompileDone == Compiling /\ query_out # <<>>

Resolving == query_in # <<>> /\ query_in[1].call = "for_field"

ResolveDone == Resolving /\ query_out # <<>>

\* The field is one of the registry: an added expression, a column by its
\* name, or a declared key of a JSON column that is there
IsExpr(self, field) == field \in DOMAIN self.exprs

ColumnsNamed(self, name) ==
    {i \in DOMAIN self.columns : Lower(self.columns[i].ref.name) = Lower(name)}

IsJsonKey(self, field) ==
    /\ field \in DOMAIN self.json_keys
    /\ \E i \in ColumnsNamed(self, self.json_keys[field]) :
            self.columns[i].ty \in JsonTypes

InRegistry(self, field) ==
    \/ IsExpr(self, field)
    \/ ColumnsNamed(self, field) # {}
    \/ IsJsonKey(self, field)

\* The atoms of the filter and the clauses of the sort, as written
AtomsOf(q) == IF q = <<>> THEN {} ELSE {Split(q, "&")[i] : i \in 1..Len(Split(q, "&"))}

FieldAtomsOf(q) == {a \in AtomsOf(q) : Len(a) >= 3 /\ a[2] \in Operators}

ClausesOf(s) == IF s = <<>> THEN {} ELSE {Split(s, ",")[i] : i \in 1..Len(Split(s, ","))}

DirectionOf(clause) == IF Len(clause) >= 3 THEN clause[3] ELSE "asc"

IsSearchSyntax(out) == ~out.ok /\ out.error # <<>> /\ out.error[1] = "SearchSyntax"


\* ---- C17 ----

\* A field atom, or a sort clause, of the call names a field that is not
\* in the registry
NamesUnknownField ==
    \/ \E a \in FieldAtomsOf(query_in[1].query.q) :
            ~InRegistry(query_in[1].columns, a[1])
    \/ \E c \in ClausesOf(query_in[1].query.sort) :
            ~InRegistry(query_in[1].columns, c[1])

\* ... and the translator returns nothing for a value of that atom, or
\* for that clause
NamesUntranslatedUnknownField ==
    \/ \E a \in FieldAtomsOf(query_in[1].query.q) :
            /\ ~InRegistry(query_in[1].columns, a[1])
            /\ \E i \in 3..Len(a) :
                    /\ a[i] # "|"
                    /\ translate(query_in[1].columns, a[1], a[2], a[i]) = <<>>
    \/ \E c \in ClausesOf(query_in[1].query.sort) :
            /\ ~InRegistry(query_in[1].columns, c[1])
            /\ translate(query_in[1].columns, c[1], DirectionOf(c), "") = <<>>

\* C17 (as stated): compiling a filter or sort expression that names a
\* field which is not in the columns registry fails with a SearchSyntax
\* error.
C17_UnknownFieldFails ==
    (CompileDone /\ NamesUnknownField) => IsSearchSyntax(query_out[1])

\* C17 (amended): compiling a filter or sort expression that names a field
\* which is not in the columns registry, and for which the translator
\* returns no fragment, fails with a SearchSyntax error; a field the
\* translator rewrites need not be in the registry.
C17_UntranslatedUnknownFieldFails ==
    /\ (CompileDone /\ NamesUntranslatedUnknownField)
            => IsSearchSyntax(query_out[1])
    /\ (/\ CompileDone
        /\ query_in[1].columns = translator(from_entity(AdvisoryColumns),
                                            "severity_translator")
        /\ query_in[1].query = [q |-> <<"severity", ">", "medium">>,
                                sort |-> <<"severity", ":", "desc">>])
            => /\ query_out[1].ok
               /\ query_out[1].where = <<"advisory", "score", ">", "6">>
               /\ query_out[1].order_by = <<"advisory", "score", "DESC">>

\* A registry with a translator was asked for a field it does not have,
\* one value of which the translator rewrites and one it does not, and
\* the compilation failed on the field's name
C17_Witness ==
    /\ CompileDone
    /\ query_in[1].columns.translator # <<>>
    /\ query_in[1].query.q = <<"severity", "=", "low", "|", "bogus">>
    /\ NamesUntranslatedUnknownField
    /\ query_out[1].error = <<"SearchSyntax", "Invalid field name", "severity">>


\* ---- C18 ----

\* The outcome of the call is that of the filter result `where` (the call
\* has no sort)
SameFilter(out, where) ==
    /\ out.ok = where.ok
    /\ out.where = where.sql
    /\ out.error = where.error

\* The filter of the call is one atom `field op value` with one value
SingleAtom(q) == Len(q) = 3 /\ q[2] \in Operators

\* The registry of tests::translation
TranslationColumns ==
    translator(from_entity(AdvisoryColumns), "severity_translator")

\* C18: when the translator returns a fragment for an atom, the compiled
\* predicate is that of the fragment compiled at the atom's position: an
\* atom of one value compiles as its fragment does, also when the
\* fragment's atoms are translated in turn and when the field is not in
\* the registry; an atom of several values compiles as the OR (AND for
\* != and !~) of the atoms of each value; a filter compiles as the AND
\* of its atoms; a field that is not in the registry and gets no
\* fragment for a value fails the compilation. `severity=low|high`
\* compiles to (score>=0 AND score<3) OR (score>=6 AND score<10).
C18_TranslatorFixedPoint ==
    (CompileDone /\ query_in[1].query.sort = <<>>) =>
        LET self == query_in[1].columns
            q == query_in[1].query.q
            out == query_out[1]
            atoms == IF q = <<>> THEN <<>> ELSE Split(q, "&")
        IN  /\ (SingleAtom(q) /\ translate(self, q[1], q[2], q[3]) # <<>>)
                    => SameFilter(out, filter_for(self,
                                    translate(self, q[1], q[2], q[3])[1]))
            /\ (Len(atoms) = 1 /\ atoms[1] \in FieldAtomsOf(q))
                    => LET a == atoms[1]
                           values == Values(SubSeq(a, 3, Len(a)))
                       IN  SameFilter(out,
                                Join([i \in 1..Len(values) |->
                                        filter_for(self, <<a[1], a[2], values[i]>>)],
                                     IF a[2] \in {"!=", "!~"} THEN "AND" ELSE "OR"))
            /\ Len(atoms) > 1
                    => SameFilter(out, Join([i \in 1..Len(atoms) |->
                                                filter_for(self, atoms[i])], "AND"))
            /\ (\E a \in FieldAtomsOf(q) :
                    /\ ~InRegistry(self, a[1])
                    /\ \E i \in 3..Len(a) :
                            a[i] # "|" /\ translate(self, a[1], a[2], a[i]) = <<>>)
                    => ~out.ok
            /\ (self = TranslationColumns
                    /\ q = <<"severity", "=", "low", "|", "high">>)
                    => /\ out.ok
                       /\ out.where =
                            <<"(", "advisory", "score", ">=", "0", "AND",
                              "advisory", "score", "<", "3", ")", "OR",
                              "(", "advisory", "score", ">=", "6", "AND",
                              "advisory", "score", "<", "10", ")">>

\* `painful=true` was compiled: painful is not in the registry, its
\* fragment `severity>high` is translated in turn, and the predicate is
\* that of `score>10`
C18_Witness ==
    /\ CompileDone
    /\ query_in[1].columns = TranslationColumns
    /\ query_in[1].query = [q |-> <<"painful", "=", "true">>, sort |-> <<>>]
    /\ ~InRegistry(query_in[1].columns, "painful")
    /\ query_out[1].ok
    /\ query_out[1].where = <<"advisory", "score", ">", "10">>


\* ---- C19 ----

\* The filter of the call is one free-text atom of one value
FreeText(q) == Len(q) = 1

\* The alternatives of the compiled OR
TermsOf(sql) == {Split(sql, "OR")[i] : i \in 1..Len(Split(sql, "OR"))}

\* The real columns of string/text type and the declared JSON-key
\* projections
RealStrings(self) ==
    {col(self.columns[i].ref) :
        i \in {j \in DOMAIN self.columns : self.columns[j].ty \in StringTypes}}

JsonProjections(self) ==
    {<<self.json_keys[k], "->>", k>> : k \in DOMAIN self.json_keys}

\* The added expressions of string/text type
ExprStrings(self) ==
    {self.exprs[k].expr :
        k \in {n \in DOMAIN self.exprs : self.exprs[n].ty \in StringTypes}}

Matches(exprs, value) == {e \o <<"ILIKE", value>> : e \in exprs}

\* C19 (as stated): a free-text atom compiles to an OR of
\* case-insensitive substring matches over exactly the real columns of
\* string/text type plus every declared JSON-key projection, and no other
\* expression.
C19_FreeTextOverColumnsAndJsonKeys ==
    (CompileDone /\ FreeText(query_in[1].query.q)
            /\ query_in[1].query.sort = <<>>) =>
        /\ query_out[1].ok
        /\ TermsOf(query_out[1].where) =
                Matches(RealStrings(query_in[1].columns)
                            \cup JsonProjections(query_in[1].columns),
                        query_in[1].query.q[1])

\* C19 (amended): a free-text atom compiles to an OR of case-insensitive
\* substring matches over exactly the string-ish set of the registry: the
\* columns of string/text type, the added expressions of string/text
\* type, and every declared JSON-key projection.
C19_FreeTextOverStrings ==
    (CompileDone /\ FreeText(query_in[1].query.q)
            /\ query_in[1].query.sort = <<>>) =>
        /\ query_out[1].ok
        /\ TermsOf(query_out[1].where) =
                Matches(RealStrings(query_in[1].columns)
                            \cup ExprStrings(query_in[1].columns)
                            \cup JsonProjections(query_in[1].columns),
                        query_in[1].query.q[1])

\* `foo` was compiled on a registry with declared JSON keys and an added
\* expression of type Text, and the expression is one of the alternatives
C19_Witness ==
    /\ CompileDone
    /\ query_in[1].query = [q |-> <<"foo">>, sort |-> <<>>]
    /\ DOMAIN query_in[1].columns.json_keys = {"name", "type", "version"}
    /\ ExprStrings(query_in[1].columns) = {get_purl}
    /\ query_out[1].ok
    /\ get_purl \o <<"ILIKE", "foo">> \in TermsOf(query_out[1].where)
    /\ <<"purl", "->>", "name", "ILIKE", "foo">> \in TermsOf(query_out[1].where)


\* ---- C20 ----

\* The first column of the registry the name matches case-insensitively,
\* among the columns whose type is in `types`
FirstNamed(self, name, types) ==
    LET at == {i \in ColumnsNamed(self, name) : self.columns[i].ty \in types}
    IN  self.columns[CHOOSE i \in at : \A j \in at : i <= j]

AllTypes == {"Integer", "Double", "String", "Text", "Json", "JsonBinary"}

\* C20: for_field(name) gives the added expression registered under that
\* name; otherwise the first real column whose name matches
\* case-insensitively; otherwise, when name is a declared JSON key, the
\* projection column ->> name of the declared JSON column that is in the
\* registry; otherwise the SearchSyntax error 'Invalid field name'. An
\* added expression wins over a real column of the same name.
C20_LookupOrder ==
    ResolveDone =>
        LET self == query_in[1].columns
            name == query_in[1].field
            out == query_out[1]
        IN  IF IsExpr(self, name)
            THEN out = FieldOk(self.exprs[name].expr, self.exprs[name].ty)
            ELSE IF ColumnsNamed(self, name) # {}
            THEN out = FieldOk(col(FirstNamed(self, name, AllTypes).ref),
                               FirstNamed(self, name, AllTypes).ty)
            ELSE IF IsJsonKey(self, name)
            THEN /\ out.ok
                 /\ out.expr =
                        col(FirstNamed(self, self.json_keys[name], JsonTypes).ref)
                            \o <<"->>", name>>
            ELSE /\ ~out.ok
                 /\ out.error = <<"SearchSyntax", "Invalid field name", name>>

\* `title` was looked up in a registry that has the column title and an
\* added expression of that name, and the expression was returned
C20_Witness ==
    /\ ResolveDone
    /\ query_in[1].field = "title"
    /\ IsExpr(query_in[1].columns, "title")
    /\ ColumnsNamed(query_in[1].columns, "title") # {}
    /\ query_out[1].ok
    /\ query_out[1].expr = upper_title


\* ---------------------------------------------------------------------
\* Authenticator (common/auth/src/authenticator/mod.rs)
\* ---------------------------------------------------------------------

\* A scope string is the sequence of its words and of the spaces between
\* them; a word of the split is <<>> (the empty string) or one token.
Word(part) == IF part = <<>> THEN "" ELSE part[1]

\* HashMap::get(key).cloned(): Option<Vec<String>>
Mapped(mappings, name) ==
    IF name \in DOMAIN mappings THEN <<mappings[name]>> ELSE <<>>

\* AuthenticatorClient::map_scopes(scopes, scope_mappings)
RECURSIVE map_scopes_parts(_, _)
map_scopes_parts(parts, scope_mappings) ==
    IF parts = <<>> THEN <<>>
    ELSE (IF Mapped(scope_mappings, Word(Head(parts))) # <<>>
          THEN Mapped(scope_mappings, Word(Head(parts)))[1]
          ELSE <<Word(Head(parts))>>)
         \o map_scopes_parts(Tail(parts), scope_mappings)

map_scopes_unmapped_dropped(scopes, scope_mappings) ==
    map_scopes_parts(
        SelectSeq(Split(scopes, " "),
                  LAMBDA part : Word(part) \in DOMAIN scope_mappings),
        scope_mappings)

map_scopes(scopes, scope_mappings) ==
    map_scopes_parts(Split(scopes, " "), scope_mappings)

\* AuthenticatorClient::map_groups(groups, group_mappings)
RECURSIVE map_groups(_, _)
map_groups(groups, group_mappings) ==
    IF groups = <<>> THEN <<>>
    ELSE (IF Mapped(group_mappings, Head(groups)) # <<>>
          THEN Mapped(group_mappings, Head(groups))[1]
          ELSE <<Head(groups)>>)
         \o map_groups(Tail(groups), group_mappings)

\* AuthenticatorClient::extract_groups(value, selector): the strings the
\* selector $['name'][*] selects; an item that is not a string, a claim
\* that is not an array and a claim that is not there give nothing
extract_groups(value, selector) ==
    IF selector \notin DOMAIN value \/ ~value[selector].array THEN <<>>
    ELSE LET found == SelectSeq(value[selector].items, LAMBDA v : v.is_str)
         IN  [i \in 1..Len(found) |-> found[i].str]

\* client.convert_token(access_token)
convert_token(self, access_token) ==
    LET scoped == map_scopes(access_token.scope, self.scope_mappings)
        groups == IF self.group_selector = <<>> THEN <<>>
                  ELSE extract_groups(access_token.extended_claims,
                                      self.group_selector[1])
    IN  [access_token |-> access_token,
         permissions |-> scoped \o self.additional_permissions
                            \o map_groups(groups, self.group_mappings)]


\* Result<_, AuthenticationError>
AuthOk(value) == [ok |-> TRUE, value |-> <<value>>, error |-> ""]

AuthenticationErrorFailed == [ok |-> FALSE, value |-> <<>>, error |-> "Failed"]

\* values.get("client_id").and_then(|value| value.as_str())
client_id_claim(extended_claims) ==
    IF /\ "client_id" \in DOMAIN extended_claims
       /\ ~extended_claims["client_id"].array
       /\ extended_claims["client_id"].items[1].is_str
    THEN <<extended_claims["client_id"].items[1].str>>
    ELSE <<>>

\* self.clients.iter().find(..): the first client of that issuer and
\* client id
first_client_of_issuer(clients, iss, client_id) ==
    LET at == {i \in DOMAIN clients : clients[i].issuer = iss}
    IN  IF at = {} THEN <<>>
        ELSE <<clients[CHOOSE i \in at : \A j \in at : i <= j]>>

first_client(clients, iss, client_id) ==
    LET at == {i \in DOMAIN clients :
                    clients[i].issuer = iss /\ clients[i].client_id = client_id}
    IN  IF at = {} THEN <<>>
        ELSE <<clients[CHOOSE i \in at : \A j \in at : i <= j]>>

\* authenticator.find_client(token): Result<Option<client>, _>
find_client(clients, token) ==
    LET payload == token.payload
        client_id == IF payload.azp # <<>> THEN payload.azp
                     ELSE client_id_claim(payload.extended_claims)
    IN  IF ~token.decodable THEN AuthenticationErrorFailed
        ELSE IF client_id = <<>> THEN AuthenticationErrorFailed
        ELSE AuthOk(first_client(clients, payload.iss, client_id[1]))

\* client.decode_token(token): the signature verifies with the keys of
\* the client's issuer
decode_token(client, token) == token.signed_by = client.issuer

\* validate::validate_token(client, token, audience, None)
validate_claims(client, token, audience) ==
    /\ token.payload.iss = client.issuer
    /\ ~token.payload.expired
    /\ audience # <<>> => audience[1] \in token.payload.aud

\* authenticator.validate_token(token)
validate_token(clients, token) ==
    LET found == find_client(clients, token)
    IN  IF ~found.ok THEN AuthenticationErrorFailed
        ELSE IF found.value[1] = <<>> THEN AuthenticationErrorFailed
        ELSE LET client == found.value[1][1]
             IN  IF ~decode_token(client, token)
                 THEN AuthenticationErrorFailed
                 ELSE IF ~validate_claims(client, token, client.audience)
                 THEN AuthenticationErrorFailed
                 ELSE AuthOk(convert_token(client, token.payload))

\* ---- the clients and tokens the calls are made with ----

Str(s) == [is_str |-> TRUE, str |-> s]

Num(n) == [is_str |-> FALSE, str |-> n]

Scalar(v) == [array |-> FALSE, items |-> <<v>>]

Array(items) == [array |-> TRUE, items |-> items]

NoClaims == <<>>

GroupsClaim == Array(<<Str("manager"), Num("7"), Str("reader")>>)

ExtendedClaims ==
    {NoClaims,
     "groups" :> GroupsClaim,
     "groups" :> Scalar(Str("manager")),
     "client_id" :> Scalar(Str("web")),
     "client_id" :> Scalar(Num("7")),
     ("client_id" :> Scalar(Str("web"))) @@ ("groups" :> GroupsClaim)}

Scopes ==
    {<<>>,
     <<"openid">>,
     <<"foo", " ", "bar", " ", "baz">>,
     <<"foo", " ", " ", "bar">>}

SsoWeb ==
    [issuer |-> "sso", client_id |-> "web", audience |-> <<>>,
     scope_mappings |-> ("foo" :> <<"read:foo", "read:bar">>) @@ ("baz" :> <<>>),
     additional_permissions |-> <<"extra">>,
     group_selector |-> <<"groups">>,
     group_mappings |-> ("manager" :> <<"admin", "write">>)]

SsoWebApi == [SsoWeb EXCEPT !.audience = <<"api">>]

SsoCli ==
    [issuer |-> "sso", client_id |-> "cli", audience |-> <<"api">>,
     scope_mappings |-> <<>>, additional_permissions |-> <<>>,
     group_selector |-> <<>>, group_mappings |-> <<>>]

AwsWeb ==
    [issuer |-> "aws", client_id |-> "web", audience |-> <<>>,
     scope_mappings |-> ("" :> <<"anonymous">>),
     additional_permissions |-> <<>>,
     group_selector |-> <<"groups">>,
     group_mappings |-> ("reader" :> <<>>)]

Clients == {SsoWeb, SsoWebApi, SsoCli, AwsWeb}

Authenticators ==
    {<<>>, <<SsoCli>>, <<SsoWeb, SsoCli, AwsWeb>>, <<SsoWebApi, SsoWeb>>}

AccessTokenClaims ==
    [iss : {"sso", "aws", "evil"}, azp : {<<>>, <<"web">>, <<"cli">>},
     scope : Scopes, extended_claims : ExtendedClaims,
     aud : {{}, {"api"}}, expired : BOOLEAN]

Tokens ==
    [decodable : BOOLEAN, signed_by : {"sso", "aws", "forged"},
     payload : AccessTokenClaims]

AuthCalls ==
    {[call |-> "validate_token", clients |-> a, token |-> t]
        : a \in Authenticators, t \in Tokens}
    \cup {[call |-> "convert_token", clients |-> <<c>>,
           token |-> [decodable |-> TRUE, signed_by |-> c.issuer,
                      payload |-> p]]
            : c \in Clients,
              p \in {q \in AccessTokenClaims :
                        q.iss = "sso" /\ q.azp = <<>> /\ q.aud = {}
                            /\ ~q.expired}}

InitAuth ==
    /\ InitRequests
    /\ IdleRange
    /\ IdleLabels
    /\ IdlePurls
    /\ IdleQuery
    /\ IdleSbom
    /\ IdleConfig
    /\ IdleDeletes
    /\ auth_in \in {<<c>> : c \in AuthCalls}
    /\ auth_out = <<>>

\* client.convert_token(access_token)
AuthConvertToken ==
    /\ auth_in # <<>>
    /\ auth_in[1].call = "convert_token"
    /\ auth_out = <<>>
    /\ auth_out' = <<AuthOk(convert_token(auth_in[1].clients[1],
                                          auth_in[1].token.payload))>>
    /\ UNCHANGED <<outsideAuth, auth_in>>

\* authenticator.validate_token(token)
AuthValidateToken ==
    /\ auth_in # <<>>
    /\ auth_in[1].call = "validate_token"
    /\ auth_out = <<>>
    /\ auth_out' = <<validate_token(auth_in[1].clients, auth_in[1].token)>>
    /\ UNCHANGED <<outsideAuth, auth_in>>

NextAuth == AuthConvertToken \/ AuthValidateToken

SpecAuth == InitAuth /\ [][NextAuth]_vars


\* ---- helpers of the claims about the authenticator ----

Converting == auth_in # <<>> /\ auth_in[1].call = "convert_token"

ConvertDone == Converting /\ auth_out # <<>>

Validating == auth_in # <<>> /\ auth_in[1].call = "validate_token"

ValidateDone == Validating /\ auth_out # <<>>

\* Each name that has a mapping replaced by its list, the others kept
Replaced(names, mappings) ==
    Concat([i \in 1..Len(names) |->
                IF names[i] \in DOMAIN mappings THEN mappings[names[i]]
                ELSE <<names[i]>>])

\* The space-separated scopes of the token, and the strings of its
\* groups claim
ScopesOf(claims) ==
    [i \in 1..Len(Split(claims.scope, " ")) |-> Word(Split(claims.scope, " ")[i])]

GroupsOf(client, claims) ==
    IF \/ client.group_selector = <<>>
       \/ client.group_selector[1] \notin DOMAIN claims.extended_claims
       \/ ~claims.extended_claims[client.group_selector[1]].array
    THEN <<>>
    ELSE LET items == claims.extended_claims[client.group_selector[1]].items
             at == SelectSeq([i \in 1..Len(items) |-> i],
                             LAMBDA i : items[i].is_str)
         IN  [i \in 1..Len(at) |-> items[at[i]].str]

\* ---- C21 ----

\* C21: convert_token produces the permissions as the mapped scopes, then
\* the additional permissions, then the mapped groups; a scope or group
\* that has a mapping is replaced by its list (possibly empty), one
\* without a mapping passes through unchanged, and the order is that of
\* the input. Scopes "foo bar baz" with foo -> [read:foo, read:bar] and
\* baz -> [] give [read:foo, read:bar, bar].
C21_PermissionsInOrder ==
    ConvertDone =>
        LET client == auth_in[1].clients[1]
            claims == auth_in[1].token.payload
            out == auth_out[1].value[1]
        IN  /\ out.access_token = claims
            /\ out.permissions =
                    Replaced(ScopesOf(claims), client.scope_mappings)
                        \o client.additional_permissions
                        \o Replaced(GroupsOf(client, claims), client.group_mappings)
            /\ (client = SsoWeb
                    /\ claims.scope = <<"foo", " ", "bar", " ", "baz">>
                    /\ claims.extended_claims = NoClaims)
                    => out.permissions = <<"read:foo", "read:bar", "bar", "extra">>

\* A token with scopes "foo bar baz" and the groups manager and reader
\* was converted by a client that maps foo, baz and manager
C21_Witness ==
    /\ ConvertDone
    /\ auth_in[1].clients[1] = SsoWeb
    /\ auth_in[1].token.payload.scope = <<"foo", " ", "bar", " ", "baz">>
    /\ "groups" \in DOMAIN auth_in[1].token.payload.extended_claims
    /\ auth_out[1].value[1].permissions =
            <<"read:foo", "read:bar", "bar", "extra", "admin", "write", "reader">>


\* ---- C22 ----

\* The client id of the token: azp, or without azp the client_id claim
\* when it is a string
ClientIdOf(claims) ==
    IF claims.azp # <<>> THEN claims.azp
    ELSE IF /\ "client_id" \in DOMAIN claims.extended_claims
            /\ ~claims.extended_claims["client_id"].array
            /\ claims.extended_claims["client_id"].items[1].is_str
    THEN <<claims.extended_claims["client_id"].items[1].str>>
    ELSE <<>>

\* The client matches the issuer and the client id of the token
MatchesClient(client, token) ==
    /\ token.decodable
    /\ ClientIdOf(token.payload) # <<>>
    /\ client.issuer = token.payload.iss
    /\ client.client_id = ClientIdOf(token.payload)[1]

\* The signature verifies with the client and the claims are valid for it
PassesClient(client, token) ==
    /\ token.signed_by = client.issuer
    /\ ~token.payload.expired
    /\ client.audience # <<>> => client.audience[1] \in token.payload.aud

\* C22: validate_token returns a ValidatedAccessToken only when a
\* configured client matches the token's issuer and its azp (without azp,
\* its client_id claim), the signature verifies with that client and the
\* claims, the configured audience included, are valid; it is then the
\* token converted by the first such matching client. Every other
\* outcome is the one error AuthenticationError::Failed.
C22_OnlyValidTokens ==
    ValidateDone =>
        LET clients == auth_in[1].clients
            token == auth_in[1].token
            out == auth_out[1]
            matching == {i \in DOMAIN clients : MatchesClient(clients[i], token)}
        IN  /\ out.ok =>
                \E i \in matching :
                    /\ \A j \in matching : i <= j
                    /\ PassesClient(clients[i], token)
                    /\ out.value = <<convert_token(clients[i], token.payload)>>
            /\ ~out.ok =>
                /\ out = AuthenticationErrorFailed
                /\ \/ matching = {}
                   \/ \E i \in matching :
                        /\ \A j \in matching : i <= j
                        /\ ~PassesClient(clients[i], token)

\* A token without azp, with the client_id claim and the audience, was
\* validated by the first of two clients of its issuer and client id
C22_Witness ==
    /\ ValidateDone
    /\ auth_in[1].clients = <<SsoWebApi, SsoWeb>>
    /\ auth_in[1].token.payload.azp = <<>>
    /\ auth_in[1].token.payload.aud = {"api"}
    /\ auth_out[1].ok
    /\ auth_out[1].value[1].permissions # <<>>


\* ---------------------------------------------------------------------
\* SBOM graph: relationships between the packages of an SBOM, and the
\* transitive walk over them
\* ---------------------------------------------------------------------

\* The node ids of the documents; X is referenced but never a node
NodeIds == {"A", "B", "root"}

NodeOrder == <<"A", "B", "root">>

Relationships == {"DependencyOf", "DescribedBy"}

\* The rows of the SBOM tables: sbom (by id), sbom_node and
\* package_relates_to_package (by sbom id), product (by id)
EmptySbomTables ==
    [sbom |-> {}, sbom_node |-> {}, package_relates_to_package |-> {},
     product |-> {}]

Relation(left, relationship, right) ==
    [left |-> left, relationship |-> relationship, right |-> right]

\* The rows a document gives under the SBOM id
SbomRows(id, document) ==
    [sbom |-> {id},
     sbom_node |-> {[sbom_id |-> id, node_id |-> n] : n \in document.nodes},
     package_relates_to_package |->
        {[sbom_id |-> id, left_node_id |-> r.left,
          relationship |-> r.relationship, right_node_id |-> r.right]
            : r \in document.relationships},
     product |-> {}]

\* The documents whose relationships are over their own nodes, cycles and
\* self-references included
AllRelations ==
    {Relation(l, k, r) : l \in NodeIds, k \in Relationships, r \in NodeIds}

GraphDocuments ==
    {[nodes |-> n,
      relationships |-> {x \in {a, b, c} : x.left \in n /\ x.right \in n}]
        : n \in {NodeIds, {"A"}, {"A", "B"}},
          a \in AllRelations, b \in AllRelations, c \in AllRelations}

\* sbom.related_packages(relationship, pkg): the packages the node is
\* related to, over the given relationships
related_nodes(rows, id, relationships, node) ==
    {r.right_node_id :
        r \in {x \in rows.package_relates_to_package :
                    /\ x.sbom_id = id
                    /\ x.left_node_id = node
                    /\ x.relationship \in relationships}}

InOrder(nodes) == SelectSeq(NodeOrder, LAMBDA n : n \in nodes)

NoWalk == [queue |-> <<>>, visited |-> {}, found |-> <<>>, done |-> FALSE]

InitWalk ==
    /\ InitRequests
    /\ IdleRange
    /\ IdleLabels
    /\ IdlePurls
    /\ IdleQuery
    /\ IdleAuth
    /\ IdleConfig
    /\ IdleDeletes
    /\ sbom_db \in {SbomRows(1, d) : d \in GraphDocuments}
    /\ sbom_tx = <<>>
    /\ sbom_in \in {<<[call |-> "related_packages_transitively", sbom_id |-> 1,
                       relationships |-> Relationships, start |-> n]>>
                        : n \in NodeIds}
    /\ sbom_out = <<>>

\* sbom.related_packages_transitively(relationships, purl): the walk
\* starts from the package of the PURL, when the SBOM has it
WalkStart ==
    /\ sbom_in # <<>>
    /\ sbom_in[1].call = "related_packages_transitively"
    /\ sbom_out = <<>>
    /\ sbom_out' =
        <<IF [sbom_id |-> sbom_in[1].sbom_id, node_id |-> sbom_in[1].start]
                \in sbom_db.sbom_node
          THEN [NoWalk EXCEPT !.queue = <<sbom_in[1].start>>]
          ELSE [NoWalk EXCEPT !.done = TRUE]>>
    /\ UNCHANGED <<outsideSbom, sbom_db, sbom_tx, sbom_in>>

\* One round of the walk: the next package of the queue is taken, and
\* its related packages that were not visited are visited, found and
\* queued
WalkVisitAgain ==
    /\ sbom_out # <<>>
    /\ ~sbom_out[1].done
    /\ sbom_out[1].queue # <<>>
    /\ LET related == InOrder(related_nodes(sbom_db, sbom_in[1].sbom_id,
                                            sbom_in[1].relationships,
                                            Head(sbom_out[1].queue)))
       IN  sbom_out' =
            <<[sbom_out[1] EXCEPT
                !.queue = Tail(@) \o related,
                !.found = @ \o related]>>
    /\ UNCHANGED <<outsideSbom, sbom_db, sbom_tx, sbom_in>>

WalkVisit ==
    /\ sbom_out # <<>>
    /\ ~sbom_out[1].done
    /\ sbom_out[1].queue # <<>>
    /\ LET related == InOrder(related_nodes(sbom_db, sbom_in[1].sbom_id,
                                            sbom_in[1].relationships,
                                            Head(sbom_out[1].queue))
                                \ sbom_out[1].visited)
       IN  sbom_out' =
            <<[sbom_out[1] EXCEPT
                !.queue = Tail(@) \o related,
                !.visited = @ \cup {related[i] : i \in DOMAIN related},
                !.found = @ \o related]>>
    /\ UNCHANGED <<outsideSbom, sbom_db, sbom_tx, sbom_in>>

\* The queue is empty: the walk returns what it found
WalkReturn ==
    /\ sbom_out # <<>>
    /\ ~sbom_out[1].done
    /\ sbom_out[1].queue = <<>>
    /\ sbom_out' = <<[sbom_out[1] EXCEPT !.done = TRUE]>>
    /\ UNCHANGED <<outsideSbom, sbom_db, sbom_tx, sbom_in>>

NextWalk == WalkStart \/ WalkVisit \/ WalkReturn

\* The walk is one call: each of its steps is taken when it can be
SpecWalk == InitWalk /\ [][NextWalk]_vars /\ WF_vars(NextWalk)

\* ---- C23 ----

\* The packages reachable from the node over one relationship or more
RECURSIVE ReachableIn(_, _, _)
ReachableIn(rows, from, n) ==
    IF n = 0 THEN from
    ELSE ReachableIn(rows,
            from \cup UNION {related_nodes(rows, 1, Relationships, x) : x \in from},
            n - 1)

Reachable(rows, start) ==
    ReachableIn(rows, related_nodes(rows, 1, Relationships, start),
                Cardinality(NodeIds))

WalkDone == sbom_out # <<>> /\ sbom_out[1].done

\* C23: the transitive walk over the relationships of an SBOM ends for
\* every relationship graph, cycles and self-references included, and
\* returns each reachable package exactly once.
C23_WalkTerminates ==
    /\ <>WalkDone
    /\ [](WalkDone =>
            LET found == sbom_out[1].found
            IN  /\ \A i, j \in DOMAIN found : found[i] = found[j] => i = j
                /\ {found[i] : i \in DOMAIN found} =
                        IF [sbom_id |-> 1, node_id |-> sbom_in[1].start]
                                \in sbom_db.sbom_node
                        THEN Reachable(sbom_db, sbom_in[1].start)
                        ELSE {})

\* The walk from A over A -> B -> A and A -> root is over, and found B,
\* root and A itself
C23_Witness ==
    /\ WalkDone
    /\ sbom_in[1].start = "A"
    /\ sbom_db.package_relates_to_package =
            SbomRows(1, [nodes |-> NodeIds,
                         relationships |->
                            {Relation("A", "DependencyOf", "B"),
                             Relation("B", "DependencyOf", "A"),
                             Relation("A", "DescribedBy", "root")}])
                .package_relates_to_package
    /\ Len(sbom_out[1].found) = 3
    /\ {sbom_out[1].found[i] : i \in 1..3} = {"A", "B", "root"}


\* ---------------------------------------------------------------------
\* SBOM ingest (specification 4.G): one transaction per document
\* ---------------------------------------------------------------------

NodeRefs == NodeIds \cup {"X"}

AnyRelations ==
    {Relation(l, k, r) : l \in NodeRefs, k \in Relationships, r \in NodeRefs}

\* Documents of up to two relationships, some over nodes they do not have
IngestDocuments ==
    {[nodes |-> n, relationships |-> {a, b}]
        : n \in {NodeIds, {"A", "B"}}, a \in AnyRelations, b \in AnyRelations}

\* The references of the relationships that are no node of the document
InvalidReferences(document) ==
    ({r.left : r \in document.relationships} \cup
        {r.right : r \in document.relationships}) \ document.nodes

\* The union of two states of the tables
MergeRows(a, b) ==
    [sbom |-> a.sbom \cup b.sbom,
     sbom_node |-> a.sbom_node \cup b.sbom_node,
     package_relates_to_package |->
        a.package_relates_to_package \cup b.package_relates_to_package,
     product |-> a.product \cup b.product]

\* The SBOM id of the document being ingested
NewSbomId == 2

SbomResult(status, error) == [status |-> status, error |-> error, affected |-> 0]

InitSbomIngest ==
    /\ InitRequests
    /\ IdleRange
    /\ IdleLabels
    /\ IdlePurls
    /\ IdleQuery
    /\ IdleAuth
    /\ IdleConfig
    /\ IdleDeletes
    /\ sbom_db \in {EmptySbomTables,
                    SbomRows(1, [nodes |-> {"A"},
                                 relationships |->
                                    {Relation("A", "DependencyOf", "A")}])}
    /\ sbom_tx = <<>>
    /\ sbom_in \in {<<[call |-> "ingest", sbom_id |-> NewSbomId, document |-> d]>>
                        : d \in IngestDocuments}
    /\ sbom_out = <<>>

\* The transaction begins; the Sbom and SbomNode rows are inserted
SbomIngestNodes ==
    /\ sbom_in # <<>>
    /\ sbom_in[1].call = "ingest"
    /\ sbom_out = <<>>
    /\ sbom_tx = <<>>
    /\ sbom_tx' = <<SbomRows(sbom_in[1].sbom_id,
                             [sbom_in[1].document EXCEPT !.relationships = {}])>>
    /\ UNCHANGED <<outsideSbom, sbom_db, sbom_in, sbom_out>>

\* The package_relates_to_package rows are written; an unknown reference
\* is a hard error that aborts the ingest, and the transaction is rolled
\* back
SbomIngestRelationshipsSkipping ==
    /\ sbom_in # <<>>
    /\ sbom_in[1].call = "ingest"
    /\ sbom_out = <<>>
    /\ sbom_tx # <<>>
    /\ sbom_tx[1].package_relates_to_package = {}
    /\ sbom_in[1].document.relationships # {}
    /\ LET valid == {r \in sbom_in[1].document.relationships :
                        r.left \in sbom_in[1].document.nodes
                            /\ r.right \in sbom_in[1].document.nodes}
       IN  IF valid = {}
           THEN /\ sbom_out' = <<SbomResult(201, <<>>)>>
                /\ sbom_db' = MergeRows(sbom_db, sbom_tx[1])
                /\ sbom_tx' = <<>>
           ELSE /\ sbom_tx' = <<SbomRows(sbom_in[1].sbom_id,
                                    [sbom_in[1].document EXCEPT
                                        !.relationships = valid])>>
                /\ UNCHANGED <<sbom_db, sbom_out>>
    /\ UNCHANGED <<outsideSbom, sbom_in>>

SbomIngestRelationships ==
    /\ sbom_in # <<>>
    /\ sbom_in[1].call = "ingest"
    /\ sbom_out = <<>>
    /\ sbom_tx # <<>>
    /\ sbom_tx[1].package_relates_to_package = {}
    /\ sbom_in[1].document.relationships # {}
    /\ IF InvalidReferences(sbom_in[1].document) = {}
       THEN /\ sbom_tx' = <<SbomRows(sbom_in[1].sbom_id, sbom_in[1].document)>>
            /\ UNCHANGED sbom_out
       ELSE /\ \E ref \in InvalidReferences(sbom_in[1].document) :
                    sbom_out' = <<SbomResult(400,
                                    <<"invalid content", "Invalid reference", ref>>)>>
            /\ sbom_tx' = <<>>
    /\ UNCHANGED <<outsideSbom, sbom_db, sbom_in>>

\* The transaction commits
SbomIngestCommit ==
    /\ sbom_in # <<>>
    /\ sbom_in[1].call = "ingest"
    /\ sbom_out = <<>>
    /\ sbom_tx # <<>>
    /\ sbom_tx[1].package_relates_to_package # {}
    /\ sbom_db' = MergeRows(sbom_db, sbom_tx[1])
    /\ sbom_tx' = <<>>
    /\ sbom_out' = <<SbomResult(201, <<>>)>>
    /\ UNCHANGED <<outsideSbom, sbom_in>>

NextSbomIngest == SbomIngestNodes \/ SbomIngestRelationships \/ SbomIngestCommit

SpecSbomIngest == InitSbomIngest /\ [][NextSbomIngest]_vars

\* ---- C24 ----

\* The rows of the tables that belong to the SBOM id
RowsOfSbom(rows, id) ==
    {r \in rows.sbom_node \cup rows.package_relates_to_package : r.sbom_id = id}

Ingesting == sbom_in # <<>> /\ sbom_in[1].call = "ingest"

\* C24: ingesting an SBOM with a relationship that references a node id
\* which is not in the document fails with 'invalid content: Invalid
\* reference: <ref>' (HTTP 400), <ref> being such a reference, and no row
\* of that SBOM is ever committed.
C24_BrokenReferenceFails ==
    (Ingesting /\ InvalidReferences(sbom_in[1].document) # {}) =>
        /\ sbom_in[1].sbom_id \notin sbom_db.sbom
        /\ RowsOfSbom(sbom_db, sbom_in[1].sbom_id) = {}
        /\ sbom_out # <<>> =>
                /\ sbom_out[1].status = 400
                /\ Len(sbom_out[1].error) = 3
                /\ SubSeq(sbom_out[1].error, 1, 2) =
                        <<"invalid content", "Invalid reference">>
                /\ sbom_out[1].error[3] \in InvalidReferences(sbom_in[1].document)
                /\ sbom_tx = <<>>

\* A document with a valid relationship and one that references X was
\* rejected, after its nodes had been inserted in the transaction
C24_Witness ==
    /\ Ingesting
    /\ sbom_in[1].document.relationships =
            {Relation("A", "DependencyOf", "B"), Relation("A", "DependencyOf", "X")}
    /\ sbom_out # <<>>
    /\ sbom_out[1].error = <<"invalid content", "Invalid reference", "X">>
    /\ sbom_db.sbom = {1}


\* ---------------------------------------------------------------------
\* SbomService::delete_sbom, and the DELETE route of a product
\* ---------------------------------------------------------------------

SbomIds == {1, 2, 3}

ProductIds == {1, 2}

\* sbom::Entity::delete_by_id(id).exec(connection): the row of that id is
\* deleted, with the rows that reference it; rows_affected counts the
\* sbom rows
delete_every_sbom(rows, id) ==
    [rows |-> [rows EXCEPT !.sbom = {}, !.sbom_node = {},
                           !.package_relates_to_package = {}],
     rows_affected |-> Cardinality(rows.sbom)]

delete_by_id(rows, id) ==
    [rows |-> [rows EXCEPT
                !.sbom = @ \ {id},
                !.sbom_node = {r \in @ : r.sbom_id # id},
                !.package_relates_to_package = {r \in @ : r.sbom_id # id}],
     rows_affected |-> Cardinality(rows.sbom \cap {id})]

SelfPackage == [nodes |-> {"A"}, relationships |-> {Relation("A", "DependencyOf", "A")}]

InitSbomDelete ==
    /\ InitRequests
    /\ IdleRange
    /\ IdleLabels
    /\ IdlePurls
    /\ IdleQuery
    /\ IdleAuth
    /\ IdleConfig
    /\ IdleDeletes
    /\ \E sboms \in {ids \in SUBSET SbomIds : 1 \in ids},
          products \in {ids \in SUBSET ProductIds : 1 \in ids} :
            sbom_db = [sbom |-> sboms,
                       sbom_node |-> UNION {SbomRows(i, SelfPackage).sbom_node
                                                : i \in sboms},
                       package_relates_to_package |->
                            UNION {SbomRows(i, SelfPackage).package_relates_to_package
                                        : i \in sboms},
                       product |-> products]
    /\ sbom_tx = <<>>
    /\ sbom_in = <<>>
    /\ sbom_out = <<>>

\* service.delete_sbom(id, &db)
SbomDelete ==
    \E id \in SbomIds :
        /\ sbom_in' = <<[call |-> "delete_sbom", id |-> id]>>
        /\ sbom_db' = delete_by_id(sbom_db, id).rows
        /\ sbom_out' = <<[status |-> 0, error |-> <<>>,
                          affected |-> delete_by_id(sbom_db, id).rows_affected]>>
        /\ UNCHANGED <<outsideSbom, sbom_tx>>

\* DELETE /api/v2/product/{id}
ProductDelete ==
    \E id \in ProductIds :
        /\ sbom_in' = <<[call |-> "delete_product", id |-> id]>>
        /\ sbom_db' = [sbom_db EXCEPT !.product = @ \ {id}]
        /\ sbom_out' = <<[status |-> IF id \in sbom_db.product THEN 200 ELSE 404,
                          error |-> <<>>, affected |-> 0]>>
        /\ UNCHANGED <<outsideSbom, sbom_tx>>

NextSbomDelete == SbomDelete \/ ProductDelete

SpecSbomDelete == InitSbomDelete /\ [][NextSbomDelete]_vars

\* ---- C26 ----

\* C26: deleting an entity that exists succeeds exactly once: the delete
\* of an SBOM that is there returns 1 and removes it and nothing else of
\* the other SBOMs, the DELETE route of a product that is there returns
\* 200 and the product is no longer listed; the same delete repeated
\* finds nothing (0, 404) and changes nothing.
C26_DeleteOnce ==
    /\ [](sbom_in # <<>> =>
            /\ sbom_in[1].call = "delete_sbom" =>
                    /\ sbom_in[1].id \notin sbom_db.sbom
                    /\ \A r \in sbom_db.sbom_node : r.sbom_id # sbom_in[1].id
            /\ sbom_in[1].call = "delete_product" =>
                    sbom_in[1].id \notin sbom_db.product)
    /\ [][/\ sbom_in'[1].call = "delete_sbom" =>
                IF sbom_in'[1].id \in sbom_db.sbom
                THEN /\ sbom_out'[1].affected = 1
                     /\ sbom_db'.sbom = sbom_db.sbom \ {sbom_in'[1].id}
                     /\ sbom_db'.product = sbom_db.product
                     /\ \A r \in sbom_db.sbom_node :
                            r.sbom_id # sbom_in'[1].id => r \in sbom_db'.sbom_node
                ELSE /\ sbom_out'[1].affected = 0
                     /\ sbom_db' = sbom_db
          /\ sbom_in'[1].call = "delete_product" =>
                IF sbom_in'[1].id \in sbom_db.product
                THEN /\ sbom_out'[1].status = 200
                     /\ sbom_db' = [sbom_db EXCEPT !.product = @ \ {sbom_in'[1].id}]
                ELSE /\ sbom_out'[1].status = 404
                     /\ sbom_db' = sbom_db]_vars

\* SBOM 1, which was there at first, is deleted, and its delete was
\* repeated while SBOM 2 is there: it returned 0
C26_Witness ==
    /\ sbom_in # <<>>
    /\ sbom_in[1] = [call |-> "delete_sbom", id |-> 1]
    /\ sbom_out[1].affected = 0
    /\ sbom_db.sbom = {2}


\* ---------------------------------------------------------------------
\* SbomService::fetch_related_packages and related_packages
\* ---------------------------------------------------------------------

\* SbomNodeReference::All and SbomNodeReference::Package(node_id)
All == <<>>

Package(node_id) == <<node_id>>

\* service.fetch_related_packages(sbom_id, search, paginated, which,
\* reference, relationship, db) with the default search and pagination:
\* the relationships of the SBOM, filtered on the side `which` names when
\* the reference is a package, joined with the package of the other side
fetch_related_packages(rows, sbom_id, which, reference, relationship) ==
    LET of_sbom == {r \in rows.package_relates_to_package : r.sbom_id = sbom_id}
        filter(r) == IF which = "Left" THEN r.left_node_id ELSE r.right_node_id
        join(r) == IF which = "Left" THEN r.right_node_id ELSE r.left_node_id
        referenced == IF reference = All THEN of_sbom
                      ELSE {r \in of_sbom : filter(r) = reference[1]}
        related == IF relationship = <<>> THEN referenced
                   ELSE {r \in referenced : r.relationship = relationship[1]}
    IN  {[relationship |-> r.relationship, package |-> join(r)] :
            r \in {x \in related :
                    [sbom_id |-> sbom_id, node_id |-> join(x)] \in rows.sbom_node}}

\* service.related_packages(sbom_id, relationship, pkg, tx): the packages
\* of the items, each once
related_packages(rows, sbom_id, relationship, pkg) ==
    {item.package :
        item \in fetch_related_packages(rows, sbom_id, "Left", pkg, relationship)}

InitRelated ==
    /\ InitRequests
    /\ IdleRange
    /\ IdleLabels
    /\ IdlePurls
    /\ IdleQuery
    /\ IdleAuth
    /\ IdleConfig
    /\ IdleDeletes
    /\ sbom_db \in {SbomRows(1, d) : d \in GraphDocuments}
    /\ sbom_tx = <<>>
    /\ sbom_in \in {<<[call |-> "related_packages", sbom_id |-> 1,
                       relationship |-> k, pkg |-> p]>>
                        : k \in {<<>>} \cup {<<x>> : x \in Relationships},
                          p \in {All} \cup {Package(n) : n \in NodeIds}}
    /\ sbom_out = <<>>

SbomRelatedPackages ==
    /\ sbom_in # <<>>
    /\ sbom_in[1].call = "related_packages"
    /\ sbom_out = <<>>
    /\ sbom_out' = <<related_packages(sbom_db, sbom_in[1].sbom_id,
                                      sbom_in[1].relationship, sbom_in[1].pkg)>>
    /\ UNCHANGED <<outsideSbom, sbom_db, sbom_tx, sbom_in>>

NextRelated == SbomRelatedPackages

SpecRelated == InitRelated /\ [][NextRelated]_vars

\* ---- C29 ----

\* C29: related_packages is fetch_related_packages called with
\* Which::Right, the provided node reference and relationship, and the
\* default search and pagination: it returns the packages of those items.
C29_RelatedIsWhichRight ==
    (sbom_in # <<>> /\ sbom_in[1].call = "related_packages" /\ sbom_out # <<>>)
        => sbom_out[1] =
            {item.package :
                item \in fetch_related_packages(sbom_db, sbom_in[1].sbom_id,
                            "Right", sbom_in[1].pkg, sbom_in[1].relationship)}


\* ---------------------------------------------------------------------
\* match_versions on its own: any version list, start and end
\* ---------------------------------------------------------------------

MaxVersions == 3

MatchVersions == {"a", "b", "c"}

MatchInputs ==
    [versions : SeqsUpTo(MatchVersions, MaxVersions), start : MatchVersions,
     end : {<<>>} \cup {<<v>> : v \in MatchVersions}]

InitMatch ==
    /\ InitRequests
    /\ range_in \in {<<i>> : i \in MatchInputs}
    /\ range_out = <<>>
    /\ IdleLabels
    /\ IdlePurls
    /\ IdleQuery
    /\ IdleOthers

\* match_versions(&versions, start, end) as ingest_range_from calls it
MatchApply ==
    /\ range_in # <<>>
    /\ range_out = <<>>
    /\ range_out' = <<match_versions(range_in[1].versions, range_in[1].start,
                                     range_in[1].end)>>
    /\ UNCHANGED <<requestVars, range_in, componentVars>>

NextMatch == MatchApply

SpecMatch == InitMatch /\ [][NextMatch]_vars

\* the positions of `version` in `versions` from position `from` on
PositionsFrom(versions, version, from) ==
    {i \in from..Len(versions) : versions[i] = version}

Min(positions) == CHOOSE i \in positions : \A j \in positions : i <= j

\* the run the claim describes: from the first start, up to the first end
\* after it
RunOf(versions, start, end) ==
    LET starts == PositionsFrom(versions, start, 1)
    IN  IF starts = {} THEN <<>>
        ELSE LET first == Min(starts)
                 ends == IF end = <<>> THEN {}
                         ELSE PositionsFrom(versions, end[1], first + 1)
             IN  IF ends = {} THEN SubSeq(versions, first, Len(versions))
                 ELSE SubSeq(versions, first, Min(ends) - 1)

Matched == range_in # <<>> /\ range_out # <<>>

\* ---- C28 ----

\* C28: match_versions(versions, start, end) returns the contiguous run of
\* versions from the first occurrence of start (inclusive) up to the next
\* occurrence of end (exclusive), runs to the end of the list when end is
\* None or does not occur after start, is empty when start does not occur,
\* and the returned list never contains end.
C28_RunWithoutEnd ==
    Matched =>
        LET in == range_in[1]
        IN  /\ range_out[1] = RunOf(in.versions, in.start, in.end)
            /\ in.end # <<>> =>
                \A i \in 1..Len(range_out[1]) : range_out[1][i] # in.end[1]

\* the run itself is what the code returns
MatchIsRun ==
    Matched => range_out[1] = RunOf(range_in[1].versions, range_in[1].start,
                                    range_in[1].end)


\* ---------------------------------------------------------------------
\* The transaction of the advisory DELETE handler
\* ---------------------------------------------------------------------

\* a DELETE request is in progress or has returned
Deleting == pc # "idle" /\ doc = NoDoc

DeleteReturned == Deleting /\ pc = "done"

\* the tables the handler found, without the advisory and with the
\* deprecation of its identifier updated
AfterDelete(t, row) ==
    UpdateDeprecatedAdvisory(DeleteAdvisoryRows(t, row.id), row.identifier)

\* ---- C25 ----

\* C25: the DELETE handler commits only when exactly one advisory row was
\* deleted; then the committed tables are the tables it found without that
\* advisory, with the deprecation of its identifier updated and with the
\* unused PURLs collected (or not, when the collection failed), and the
\* response is 200. A key that matches no advisory gives 404 (or the error
\* of a failed await), and after every response other than 200 the
\* committed tables are the tables the handler found.
C25_DeleteTransaction ==
    /\ [](DeleteReturned =>
            /\ response = <<200>> =>
                /\ fetched # <<>>
                /\ fetched = fetch_advisory(snap, key)
                /\ affected = 1
                /\ db \in {AfterDelete(snap, fetched[1]),
                           GcPurls(AfterDelete(snap, fetched[1]))}
            /\ response # <<200>> => db = snap
            /\ fetch_advisory(snap, key) = <<>> => response \in {<<404>>, <<500>>})
    /\ [][(Deleting /\ db' # db) =>
            /\ pc = "delete_commit"
            /\ affected = 1
            /\ db' = tx
            /\ response' = <<200>>]_vars

\* a delete returned 200 after it removed the current advisory of an
\* identifier, made an older one current and collected PURLs
C25_Witness ==
    /\ DeleteReturned
    /\ response = <<200>>
    /\ affected = 1
    /\ \E a \in snap.advisory :
        a.deprecated /\ [a EXCEPT !.deprecated = FALSE] \in db.advisory
    /\ snap.versioned_purl # {}
    /\ db.versioned_purl = {}

\* a delete of a key that matches no advisory returned 404 over a database
\* that holds advisories
DeleteNotFound ==
    /\ DeleteReturned
    /\ response = <<404>>
    /\ db.advisory # {}


\* ---------------------------------------------------------------------
\* common::config::Database::from_env
\* ---------------------------------------------------------------------

DB_NAME == "trustify"
DB_USER == "postgres"
DB_PASS == "trustify"
DB_HOST == "localhost"
DB_PORT == 5432
DB_MAX_CONN == 75
DB_MIN_CONN == 25
DB_CONNECT_TIMEOUT == 8
DB_ACQUIRE_TIMEOUT == 8
DB_MAX_LIFETIME == 7200
DB_IDLE_TIMEOUT == 600

ENV_DB_URL == "TRUSTD_DB_URL"
ENV_DB_NAME == "TRUSTD_DB_NAME"
ENV_DB_USER == "TRUSTD_DB_USER"
ENV_DB_PASS == "TRUSTD_DB_PASSWORD"
ENV_DB_HOST == "TRUSTD_DB_HOST"
ENV_DB_PORT == "TRUSTD_DB_PORT"
ENV_DB_MAX_CONN == "TRUSTD_DB_MAX_CONN"
ENV_DB_MIN_CONN == "TRUSTD_DB_MIN_CONN"
ENV_DB_CONNECT_TIMEOUT == "TRUSTD_DB_MIN_CONN"
ENV_DB_ACQUIRE_TIMEOUT == "TRUSTD_DB_ACQUIRE_TIMEOUT"
ENV_DB_MAX_LIFETIME == "TRUSTD_DB_MAX_LIFETIME"
ENV_DB_IDLE_TIMEOUT == "TRUSTD_DB_IDLE_TIMEOUT"
ENV_DB_SSLMODE == "TRUSTD_DB_SSLMODE"

\* the variable connect_timeout is named after
OWN_DB_CONNECT_TIMEOUT == "TRUSTD_DB_CONNECT_TIMEOUT"

EnvNames ==
    {ENV_DB_URL, ENV_DB_NAME, ENV_DB_USER, ENV_DB_PASS, ENV_DB_HOST, ENV_DB_PORT,
     ENV_DB_MAX_CONN, ENV_DB_MIN_CONN, OWN_DB_CONNECT_TIMEOUT,
     ENV_DB_ACQUIRE_TIMEOUT, ENV_DB_MAX_LIFETIME, ENV_DB_IDLE_TIMEOUT,
     ENV_DB_SSLMODE}

\* SslMode, in kebab case
SslModes == {"disable", "allow", "prefer", "require", "verify-ca", "verify-full"}

\* values of a variable: a number, a duration, two SSL modes, and a text
\* that is none of them
EnvValues == {"5", "10s", "require", "verify-ca", "x"}

\* the environments with at most two variables set
Unset == [n \in EnvNames |-> <<>>]

Environments ==
    {Unset}
    \cup {[Unset EXCEPT ![n] = <<v>>] : n \in EnvNames, v \in EnvValues}
    \cup {[Unset EXCEPT ![n] = <<v>>, ![o] = <<w>>] :
            n \in {ENV_DB_SSLMODE, ENV_DB_MIN_CONN, OWN_DB_CONNECT_TIMEOUT},
            v \in EnvValues, o \in EnvNames, w \in EnvValues}

\* env::var(name): Ok(value) or Err
var(env, name) == env[name]

\* s.parse::<u16>(), s.parse::<u32>()
parse_int(s) == IF s = "5" THEN <<5>> ELSE <<>>

\* humantime::parse_duration(s).as_secs()
parse_duration(s) == IF s = "10s" THEN <<10>> ELSE <<>>

\* SslMode::from_str(s, false)
from_str(s) == IF s \in SslModes THEN <<s>> ELSE <<>>

unwrap_or(option, default) == IF option = <<>> THEN default ELSE option[1]

\* match env::var(name) { Ok(s) => s.parse()?, _ => default }: None when
\* the `?` returns the error
parsed_or(env, name, default) ==
    IF var(env, name) = <<>> THEN <<default>> ELSE parse_int(var(env, name)[1])

\* match env::var(name) { Ok(s) => parse_duration(&s).unwrap_or(fallback)
\* .as_secs(), _ => default }
duration_or(env, name, fallback, default) ==
    IF var(env, name) = <<>> THEN default
    ELSE unwrap_or(parse_duration(var(env, name)[1]), fallback)

from_env(env) ==
    LET port == parsed_or(env, ENV_DB_PORT, DB_PORT)
        max_conn == parsed_or(env, ENV_DB_MAX_CONN, DB_MAX_CONN)
        min_conn == parsed_or(env, ENV_DB_SSLMODE, DB_MIN_CONN)
        sslmode == IF var(env, ENV_DB_SSLMODE) = <<>> THEN <<"prefer">>
                   ELSE from_str(var(env, ENV_DB_SSLMODE)[1])
    IN  IF port = <<>> \/ max_conn = <<>> \/ min_conn = <<>> \/ sslmode = <<>>
            THEN [kind |-> "Err"]
        ELSE [kind |-> "Ok",
              url |-> var(env, ENV_DB_URL),
              username |-> unwrap_or(var(env, ENV_DB_USER), DB_USER),
              password |-> unwrap_or(var(env, ENV_DB_PASS), DB_PASS),
              name |-> unwrap_or(var(env, ENV_DB_NAME), DB_NAME),
              host |-> unwrap_or(var(env, ENV_DB_HOST), DB_HOST),
              port |-> port[1],
              max_conn |-> max_conn[1],
              min_conn |-> min_conn[1],
              connect_timeout |->
                  duration_or(env, ENV_DB_CONNECT_TIMEOUT, DB_IDLE_TIMEOUT,
                              DB_CONNECT_TIMEOUT),
              acquire_timeout |->
                  duration_or(env, ENV_DB_ACQUIRE_TIMEOUT, DB_ACQUIRE_TIMEOUT,
                              DB_ACQUIRE_TIMEOUT),
              max_lifetime |->
                  duration_or(env, ENV_DB_MAX_LIFETIME, DB_MAX_LIFETIME,
                              DB_MAX_LIFETIME),
              idle_timeout |->
                  duration_or(env, ENV_DB_IDLE_TIMEOUT, DB_IDLE_TIMEOUT,
                              DB_IDLE_TIMEOUT),
              sslmode |-> sslmode[1]]

InitConfig ==
    /\ InitRequests
    /\ IdleRange
    /\ IdleLabels
    /\ IdlePurls
    /\ IdleQuery
    /\ IdleAuth
    /\ IdleSbom
    /\ IdleDeletes
    /\ config_in \in {<<env>> : env \in Environments}
    /\ config_out = <<>>

ConfigFromEnv ==
    /\ config_in # <<>>
    /\ config_out = <<>>
    /\ config_out' = <<from_env(config_in[1])>>
    /\ UNCHANGED <<outsideConfig, config_in>>

NextConfig == ConfigFromEnv

SpecConfig == InitConfig /\ [][NextConfig]_vars

\* ---- C27 ----

\* C27: from_env reads every setting from its own variable and falls back
\* to that setting's own default: min_conn comes from TRUSTD_DB_MIN_CONN,
\* connect_timeout from TRUSTD_DB_CONNECT_TIMEOUT with DB_CONNECT_TIMEOUT
\* when the variable is unset or is no duration, and a valid
\* TRUSTD_DB_SSLMODE sets sslmode alone and does not make from_env fail.
C27_OwnVariables ==
    config_out # <<>> =>
        LET env == config_in[1]
            out == config_out[1]
            port == parsed_or(env, ENV_DB_PORT, DB_PORT)
            max_conn == parsed_or(env, ENV_DB_MAX_CONN, DB_MAX_CONN)
            min_conn == parsed_or(env, ENV_DB_MIN_CONN, DB_MIN_CONN)
            valid == /\ var(env, ENV_DB_SSLMODE) # <<>>
                     /\ var(env, ENV_DB_SSLMODE)[1] \in SslModes
        IN  /\ (valid /\ port # <<>> /\ max_conn # <<>> /\ min_conn # <<>>) =>
                (out.kind = "Ok" /\ out.sslmode = var(env, ENV_DB_SSLMODE)[1])
            /\ out.kind = "Ok" =>
                /\ out.min_conn = min_conn[1]
                /\ out.connect_timeout =
                    duration_or(env, OWN_DB_CONNECT_TIMEOUT, DB_CONNECT_TIMEOUT,
                                DB_CONNECT_TIMEOUT)


\* ---------------------------------------------------------------------
\* Two DELETE requests for the same advisory, running concurrently
\* ---------------------------------------------------------------------

Requests == {1, 2}

\* the advisory tables ingests and deletes leave: of each identifier the
\* newest advisory is current
AdvisoryTables ==
    {[EmptyTables EXCEPT !.advisory =
        {[id |-> id, identifier |-> f[id], withdrawn |-> FALSE,
          deprecated |-> \E other \in ids : other > id /\ f[other] = f[id]]
            : id \in ids}]
        : f \in [Keys -> Identifiers], ids \in SUBSET Keys}

HttpResponse(status) == [status |-> status, error |-> ""]

HttpError(error) == [status |-> 500, error |-> error]

InitConcurrent ==
    /\ InitComponents
    /\ db \in AdvisoryTables
    /\ tx = EmptyTables
    /\ snap = db
    /\ pc = "idle"
    /\ nextId = 1
    /\ doc = NoDoc
    /\ advisory = 0
    /\ cveIdx = 0
    /\ sevIdx = 0
    /\ affIdx = 0
    /\ warnings = <<>>
    /\ creator = {}
    /\ result = <<>>
    /\ key \in Keys
    /\ fetched = <<>>
    /\ returned = <<>>
    /\ affected = 0
    /\ response = <<>>
    /\ IdleRange
    /\ IdleLabels
    /\ IdlePurls
    /\ IdleQuery
    /\ IdleAuth
    /\ IdleSbom
    /\ IdleConfig
    /\ deletes = [r \in Requests |->
                    [pc |-> "delete_begin", tx |-> EmptyTables, fetched |-> <<>>,
                     returned |-> <<>>, affected |-> 0, response |-> <<>>]]

outsideConcurrent ==
    <<tx, snap, pc, nextId, loadVars, deleteVars, rangeVars, creatorVars,
      labelVars, purlVars, queryVars, authVars, sbomVars, configVars>>

\* the handler returns without a commit: its transaction is dropped
Return(request, reply) ==
    [request EXCEPT !.pc = "done", !.response = <<reply>>, !.tx = EmptyTables]

\* the other request has deleted the row in a transaction that is still open
RowLocked(r) ==
    \E o \in Requests \ {r} :
        deletes[o].pc \in {"delete_update", "delete_gc", "delete_commit"}

ConcurrentBegin(r) ==
    /\ deletes[r].pc = "delete_begin"
    /\ deletes' = [deletes EXCEPT ![r].pc = "delete_fetch"]
    /\ UNCHANGED <<db, outsideConcurrent>>

\* fetch_advisory reads the committed rows
ConcurrentFetch(r) ==
    /\ deletes[r].pc = "delete_fetch"
    /\ LET found == fetch_advisory(db, key)
       IN  deletes' =
               [deletes EXCEPT ![r] =
                   IF found # <<>>
                       THEN [deletes[r] EXCEPT !.fetched = found,
                                               !.pc = "delete_advisory"]
                       ELSE Return(deletes[r], HttpResponse(404))]
    /\ UNCHANGED <<db, outsideConcurrent>>

\* the DELETE deletes the row whatever the other transaction did to it
ConcurrentDeleteUnlocked(r) ==
    /\ deletes[r].pc = "delete_advisory"
    /\ LET request == deletes[r]
       IN  deletes' =
               [deletes EXCEPT ![r] =
                   [request EXCEPT
                       !.returned = <<request.fetched[1].identifier>>,
                       !.affected = 1,
                       !.tx = DeleteAdvisoryRows(db, request.fetched[1].id),
                       !.pc = "delete_update"]]
    /\ UNCHANGED <<db, outsideConcurrent>>

\* delete_advisory: the DELETE ... RETURNING identifier statement, which
\* waits while another transaction holds the row, and then finds the
\* committed row or none
ConcurrentDeleteAdvisory(r) ==
    /\ deletes[r].pc = "delete_advisory"
    /\ ~RowLocked(r)
    /\ LET id == deletes[r].fetched[1].id
           rows == {a \in db.advisory : a.id = id}
           result_rows ==
               IF rows = {} THEN <<>> ELSE <<(CHOOSE a \in rows : TRUE).identifier>>
       IN  deletes' =
               [deletes EXCEPT ![r] =
                   IF result_rows # <<>>
                       THEN [deletes[r] EXCEPT !.returned = result_rows,
                                               !.affected = Len(result_rows),
                                               !.tx = DeleteAdvisoryRows(db, id),
                                               !.pc = "delete_update"]
                       ELSE Return([deletes[r] EXCEPT !.affected = 0],
                                   HttpResponse(404))]
    /\ UNCHANGED <<db, outsideConcurrent>>

\* delete_advisory: UpdateDeprecatedAdvisory for the returned rows, then the
\* match on rows_affected
ConcurrentUpdateDeprecated(r) ==
    /\ deletes[r].pc = "delete_update"
    /\ LET request == deletes[r]
           updated == UpdateDeprecatedAdvisory(request.tx, Head(request.returned))
       IN  deletes' =
               [deletes EXCEPT ![r] =
                   IF Len(request.returned) > 1
                       THEN [request EXCEPT !.returned = Tail(request.returned),
                                            !.tx = updated]
                   ELSE IF request.affected = 1
                       THEN [request EXCEPT !.returned = <<>>, !.tx = updated,
                                            !.pc = "delete_gc"]
                   ELSE Return(request, HttpError("Internal"))]
    /\ UNCHANGED <<db, outsideConcurrent>>

\* gc_purls, whose failure is ignored
ConcurrentGc(r) ==
    /\ deletes[r].pc = "delete_gc"
    /\ \E collected \in BOOLEAN :
        deletes' =
            [deletes EXCEPT ![r] =
                [deletes[r] EXCEPT
                    !.tx = IF collected THEN GcPurls(deletes[r].tx) ELSE deletes[r].tx,
                    !.pc = "delete_commit"]]
    /\ UNCHANGED <<db, outsideConcurrent>>

ConcurrentCommit(r) ==
    /\ deletes[r].pc = "delete_commit"
    /\ db' = deletes[r].tx
    /\ deletes' = [deletes EXCEPT ![r].pc = "done",
                                  ![r].response = <<HttpResponse(200)>>]
    /\ UNCHANGED outsideConcurrent

\* an await of the handler returns an error: no commit
ConcurrentFail(r) ==
    /\ deletes[r].pc \in DeleteSteps
    /\ deletes' = [deletes EXCEPT ![r] = Return(deletes[r], HttpError("Database"))]
    /\ UNCHANGED <<db, outsideConcurrent>>

NextConcurrent ==
    \E r \in Requests :
        \/ ConcurrentBegin(r)
        \/ ConcurrentFetch(r)
        \/ ConcurrentDeleteAdvisory(r)
        \/ ConcurrentUpdateDeprecated(r)
        \/ ConcurrentGc(r)
        \/ ConcurrentCommit(r)
        \/ ConcurrentFail(r)

SpecConcurrent == InitConcurrent /\ [][NextConcurrent]_vars

Replied(status) ==
    {r \in Requests :
        /\ deletes[r].response # <<>>
        /\ deletes[r].response[1].status = status
        /\ deletes[r].response[1].error = ""}

AllReturned == \A r \in Requests : deletes[r].pc = "done"

AwaitFailed ==
    \E r \in Requests :
        deletes[r].response # <<>> /\ deletes[r].response[1].error = "Database"

\* ---- C30 ----

\* C30: when two DELETE requests for the same advisory run concurrently, in
\* any interleaving, no request returns an Internal error, at most one
\* returns 200, and the committed tables are those the requests found or
\* those of a single delete; when both have returned and no await failed,
\* exactly one returned 200, the other 404, and the advisory was deleted
\* once, with the deprecation of its identifier updated as by one delete.
C30_ConcurrentDeletes ==
    deletes # <<>> =>
        LET found == fetch_advisory(snap, key)
            once == IF found = <<>> THEN {snap}
                    ELSE {AfterDelete(snap, found[1]),
                          GcPurls(AfterDelete(snap, found[1]))}
        IN  /\ \A r \in Requests :
                deletes[r].response # <<>> =>
                    deletes[r].response[1].error # "Internal"
            /\ Cardinality(Replied(200)) <= 1
            /\ db \in {snap} \cup once
            /\ (AllReturned /\ ~AwaitFailed /\ found # <<>>) =>
                /\ Cardinality(Replied(200)) = 1
                /\ Cardinality(Replied(404)) = 1
                /\ db \in once

\* both requests fetched the advisory; one deleted it and returned 200, the
\* other then deleted no row and returned 404; an older advisory of the
\* identifier became current
C30_Witness ==
    /\ deletes # <<>>
    /\ AllReturned
    /\ \A r \in Requests : deletes[r].fetched # <<>>
    /\ Cardinality(Replied(200)) = 1
    /\ Cardinality(Replied(404)) = 1
    /\ \E a \in snap.advisory :
        a.deprecated /\ [a EXCEPT !.deprecated = FALSE] \in db.advisory

====
